---------------------------- MODULE Spec2Model ----------------------------
(***************************************************************************)
(* Harvey analytics: the dbt model simulation                              *)
(* (python/analysis/model_results_simulation.py) and the data-quality      *)
(* analysis (python/analysis/harvey_data_quality_analysis.py), as a state  *)
(* machine over three input collections (users, firms, events).            *)
(*                                                                         *)
(* Representation                                                          *)
(*   - a timestamp is an integer number of ticks since Monday 2024-01-01   *)
(*     00:00, TicksPerDay ticks to the day;                                *)
(*   - a calendar date is a day number, a calendar week (pandas 'W', i.e.  *)
(*     Monday..Sunday) a week number, a calendar month a month number      *)
(*     (0 = 2024-01); str() of a period is order preserving and one to one *)
(*     on these, and the tables keep the number;                           *)
(*   - a missing categorical value (NaN) is the string NaN, a missing or   *)
(*     not-applicable numeric cell (None / NaN) is the empty sequence None *)
(*     and a present one is Some(v) = <<v>>;                               *)
(*   - a value rounded to two decimals (.round(2)) is kept in hundredths;  *)
(*   - a mean that the code does not round is kept as the pair sum, count. *)
(***************************************************************************)
EXTENDS Integers, Sequences, FiniteSets, TLC

VARIABLES
    users,                  \* users_df as loaded by load_harvey_data
    firms,                  \* firms_df
    events,                 \* events_df, in row order
    entry,                  \* the function this run was started with
    pc,                     \* position of the run
    raised,                 \* the exception that ended the run, "" if none
    ret,                    \* return value of main
    stdout,                 \* what main has printed of its outcome
    engagement_df,          \* result of simulate_user_engagement
    cohort_df,              \* result of simulate_cohort_analysis
    acquisition_df,         \* result of simulate_user_acquisition_metrics
    acquisition_base_df,    \* result of simulate_user_acquisition_base
    event_performance_df,   \* the base rows of simulate_event_performance_metrics
    daily_metrics,          \* its three rollups
    weekly_metrics,
    monthly_metrics,
    combined_metrics,       \* its result
    orphaned_users,         \* analyze_anomalies()['orphaned_users']
    loads,                  \* calls of load_harvey_data in the run
    assigned,               \* columns assigned on the loaded frames
    timeline_issues,        \* analyze_consistency()['timeline_issues']
    invalid_feedback,       \* analyze_consistency()['invalid_feedback']
    missing_feedback,       \* the count it reports as missing feedback
    invalid_docs,           \* analyze_consistency()['invalid_docs']
    current_date,           \* datetime.now() read by analyze_business_logic
    zero_arr_firms,         \* result of analyze_business_logic
    zero_size_firms,
    future_user_dates,
    future_firm_dates,
    future_event_dates,
    rerun,                  \* the future dates found by a second run
    users_missing,          \* analyze_completeness()['users_missing']
    firms_missing,          \* analyze_completeness()['firms_missing']
    events_missing,         \* analyze_completeness()['events_missing']
    outliers,               \* analyze_anomalies()['outliers']
    extreme_docs,           \* analyze_anomalies()['extreme_docs']
    report,                 \* the counts and the score of generate_summary_report
    call,                   \* a classification applied on its own: its arguments
    result                  \* and its value

vars == <<users, firms, events, entry, pc, raised, ret, stdout, engagement_df, cohort_df,
          acquisition_df, acquisition_base_df, event_performance_df, daily_metrics,
          weekly_metrics, monthly_metrics, combined_metrics, orphaned_users,
          loads, assigned, timeline_issues, invalid_feedback, missing_feedback,
          invalid_docs, current_date, zero_arr_firms, zero_size_firms,
          future_user_dates, future_firm_dates, future_event_dates, rerun,
          users_missing, firms_missing, events_missing, outliers, extreme_docs,
          report, call, result>>

-----------------------------------------------------------------------------
(* Values *)

NaN == "NaN"

\* a missing value of an identifier column: NaN equals no identifier, itself
\* included, so it is kept apart from every identifier of the inputs
NaNId == 0 - 1

\* the quotient of a nonzero number by zero in a numeric column
Inf == "inf"

None == <<>>

Some(v) == <<v>>

IsNone(o) == o = <<>>

Val(o) == o[1]

-----------------------------------------------------------------------------
(* Bounds of the model *)

TicksPerDay == 2

MaxSeriesEvents == 4

MaxRefEvents == 2

MaxFirmSize == 510

MaxArr == 510

MaxQueryCount == 52

MaxActiveDays == 17

MaxCount == 16

MaxLatencyDays == 32

MaxTenureDays == 92

MaxQualityEvents == 3
\* events in an input of the two-series family
MaxPairEvents == 4

-----------------------------------------------------------------------------
(* Time *)

Day(d) == d * TicksPerDay

\* Timestamp.date()
DateOf(ts) == ts \div TicksPerDay

\* Timestamp.to_period('W'): weeks run Monday..Sunday and day 0 is a Monday
WeekOf(ts) == DateOf(ts) \div 7

\* first day number of each month of 2024, then 2025-01
MonthStarts == <<0, 31, 60, 91, 121, 152, 182, 213, 244, 274, 305, 335, 366>>

\* Timestamp.to_period('M'), for timestamps of 2024
MonthOf(ts) ==
    LET d == DateOf(ts)
    IN  (CHOOSE i \in 1..12 : MonthStarts[i] <= d /\ d < MonthStarts[i + 1]) - 1

\* (a - b).days of a Timedelta: whole days, rounded towards minus infinity
DaysBetween(a, b) == (a - b) \div TicksPerDay

-----------------------------------------------------------------------------
(* Arithmetic *)

\* n / d rounded to an integer, half to even (numpy's round), for d > 0
RoundDiv(n, d) ==
    LET q == n \div d
        r == n - q * d
    IN  IF 2 * r < d THEN q
        ELSE IF 2 * r > d THEN q + 1
        ELSE IF q % 2 = 0 THEN q ELSE q + 1

\* (n / d * 100).round(2), in hundredths
RatePct(n, d) == RoundDiv(n * 10000, d)

\* (n / d).round(2), in hundredths
Ratio(n, d) == RoundDiv(n * 100, d)

RECURSIVE SumSeq(_)
SumSeq(s) == IF s = <<>> THEN 0 ELSE Head(s) + SumSeq(Tail(s))

\* Series.unique(): the distinct values in order of first appearance
RECURSIVE Unique(_)
Unique(s) ==
    IF s = <<>> THEN <<>>
    ELSE LET init == Unique(SubSeq(s, 1, Len(s) - 1))
             last == s[Len(s)]
         IN  IF \E i \in 1..Len(init) : init[i] = last THEN init
             ELSE Append(init, last)

Column(df, c) == [i \in 1..Len(df) |-> df[i][c]]

Range(s) == {s[i] : i \in 1..Len(s)}

\* Series.mean() of the present values, to two decimals: None when there is none
RoundedMean(opts) ==
    LET present == SelectSeq(opts, LAMBDA o : ~IsNone(o))
        vals == [i \in 1..Len(present) |-> Val(present[i])]
    IN  IF present = <<>> THEN None ELSE Some(Ratio(SumSeq(vals), Len(vals)))

\* Series.mean() of the present values, unrounded: sum and count
Mean(opts) ==
    LET present == SelectSeq(opts, LAMBDA o : ~IsNone(o))
        vals == [i \in 1..Len(present) |-> Val(present[i])]
    IN  IF present = <<>> THEN None
        ELSE Some([sum |-> SumSeq(vals), count |-> Len(vals)])

-----------------------------------------------------------------------------
(* The threshold classifications *)

\* engagement_level with the query thresholds strict (> for >=)
engagement_level_strict(query_count, active_days) ==
    IF query_count > 50 /\ active_days >= 15 THEN "Power User"
    ELSE IF query_count > 20 /\ active_days >= 8 THEN "Active User"
    ELSE IF query_count > 5 /\ active_days >= 3 THEN "Regular User"
    ELSE IF query_count >= 1 THEN "Occasional User"
    ELSE "Inactive"

\* simulate_user_engagement: the engagement level of one user in one month
engagement_level(query_count, active_days) ==
    IF query_count >= 50 /\ active_days >= 15 THEN "Power User"
    ELSE IF query_count >= 20 /\ active_days >= 8 THEN "Active User"
    ELSE IF query_count >= 5 /\ active_days >= 3 THEN "Regular User"
    ELSE IF query_count >= 1 THEN "Occasional User"
    ELSE "Inactive"

\* firm_size_category with the thresholds open on the lower bound
firm_size_category_open(firm_size) ==
    IF firm_size > 500 THEN "Enterprise"
    ELSE IF firm_size > 200 THEN "Large"
    ELSE IF firm_size > 100 THEN "Medium"
    ELSE "Small"

\* simulate_user_acquisition_base: the category of a firm record's firm_size
firm_size_category(firm_size) ==
    IF firm_size >= 500 THEN "Enterprise"
    ELSE IF firm_size >= 200 THEN "Large"
    ELSE IF firm_size >= 100 THEN "Medium"
    ELSE "Small"

\* arr_category with the Medium Value and Low Value branches exchanged
arr_category_swapped(arr_in_thousands) ==
    IF arr_in_thousands >= 500 THEN "High Value"
    ELSE IF arr_in_thousands >= 200 THEN "Low Value"
    ELSE IF arr_in_thousands >= 100 THEN "Medium Value"
    ELSE "Minimal Value"

\* simulate_user_acquisition_base: the category of a firm record's ARR
arr_category(arr_in_thousands) ==
    IF arr_in_thousands >= 500 THEN "High Value"
    ELSE IF arr_in_thousands >= 200 THEN "Medium Value"
    ELSE IF arr_in_thousands >= 100 THEN "Low Value"
    ELSE "Minimal Value"

\* simulate_event_performance_metrics: the segment of a user at an event
\* the segments with tenures before the creation of the user set apart
user_segment_checked(user_tenure_days) ==
    IF user_tenure_days < 0 THEN "Long-term User"
    ELSE IF user_tenure_days <= 7 THEN "New User"
    ELSE IF user_tenure_days <= 30 THEN "Recent User"
    ELSE IF user_tenure_days <= 90 THEN "Established User"
    ELSE "Long-term User"

user_segment(user_tenure_days) ==
    IF user_tenure_days <= 7 THEN "New User"
    ELSE IF user_tenure_days <= 30 THEN "Recent User"
    ELSE IF user_tenure_days <= 90 THEN "Established User"
    ELSE "Long-term User"

\* weekly_metrics['week_over_week_growth_pct'] of one row, in hundredths:
\* prev is the shifted total_events, None on the first row of a series;
\* .replace(0, np.nan) makes a zero divisor missing, and so the quotient
week_over_week_growth_pct(total_events, prev_week_events) ==
    IF IsNone(prev_week_events) THEN None
    ELSE IF Val(prev_week_events) = 0 THEN None
    ELSE Some(RoundDiv((total_events - Val(prev_week_events)) * 10000,
                       Val(prev_week_events)))

-----------------------------------------------------------------------------
(* The input collections *)

User(id, created, title) ==
    [user_id |-> id, user_created_date |-> created, user_title |-> title]

DatedFirm(id, created, size, arr) ==
    [firm_id |-> id, firm_created_date |-> created, firm_size |-> size,
     arr_in_thousands |-> arr]

\* a firm created on 1 January
Firm(id, size, arr) == DatedFirm(id, Day(0), size, arr)

Event(user, firm, type, created, docs, feedback) ==
    [user_id |-> user, firm_id |-> firm, event_type |-> type,
     event_created_at |-> created, num_docs |-> docs, feedback_score |-> feedback]

\* all sequences over S of length at most n
SeqsUpTo(S, n) == UNION {[1..k -> S] : k \in 0..n}

\* One user and one firm; events of one (event_type, user_title) series in
\* calendar weeks 0 (on two days), 1 and 5 (the last in February), in any
\* row order.
SeriesEvents ==
    { Event(1, 1, "ASSISTANT", Day(1), 3, Some(5)),
      Event(1, 1, "ASSISTANT", Day(3), 5, Some(2)),
      Event(1, 1, "ASSISTANT", Day(9) + 1, 12, None),
      Event(1, 1, "ASSISTANT", Day(36), 10, Some(3)) }

SeriesInputs ==
    { [users |-> <<User(1, Day(0), "Associate")>>,
       firms |-> <<Firm(1, 150, 250)>>,
       events |-> e] : e \in SeqsUpTo(SeriesEvents, MaxSeriesEvents) }

\* Zero to two users, with or without a title; zero or one firm; events that
\* reference users 1..2 or no user at all and firm 1, with or without an event
\* type: a reference is orphaned when the table it points into is too short.
RefUsers ==
    {<<>>} \cup {<<User(1, Day(0), t)>> : t \in {"Associate", NaN}}
           \cup {<<User(1, Day(0), t1), User(2, d2, t2)>> :
                    t1 \in {"Associate", NaN}, d2 \in {Day(3), Day(40)},
                    t2 \in {"Associate", "Partner", NaN}}

RefFirms == {<<>>, <<Firm(1, 99, 500)>>}

RefEvents ==
    { Event(u, 1, t, Day(2) + 1, 4, Some(4)) :
        u \in {1, 2, NaNId}, t \in {"ASSISTANT", NaN} }

RefInputs ==
    { [users |-> u, firms |-> f, events |-> e] :
        u \in RefUsers, f \in RefFirms, e \in SeqsUpTo(RefEvents, MaxRefEvents) }

\* One user created at noon of 4 January and one firm; events before, at and
\* after that time, with feedback scores below, inside and above 1..5 or
\* missing, one without documents, one of a user that has no record, one of
\* the second firm and one of a firm that has no record.
QualityEvents ==
    { Event(1, 1, "ASSISTANT", Day(3), 4, Some(0)),
      Event(1, 1, "ASSISTANT", Day(3) + 1, 0, Some(6)),
      Event(1, 1, "ASSISTANT", Day(4), 4, None),
      Event(1, 1, "ASSISTANT", Day(2), 4, Some(1)),
      Event(1, 1, "ASSISTANT", Day(60), 4, Some(5)),
      Event(2, 1, "ASSISTANT", Day(0), 4, Some(3)),
      Event(1, 3, "ASSISTANT", Day(5), 4, Some(4)),
      Event(1, 2, "ASSISTANT", Day(6), 4, Some(4)) }

QualityInputs ==
    { [users |-> <<User(1, Day(3) + 1, "Associate")>>,
       firms |-> <<DatedFirm(1, Day(0), 150, 0), DatedFirm(2, Day(70), 0, 250)>>,
       events |-> e] : e \in SeqsUpTo(QualityEvents, MaxQualityEvents) }

\* Two users with different titles, hence two (event_type, user_title)
\* series, and a firm whose firm_id is 0 next to firm 1; events of the first
\* series in calendar weeks 0 and 3, of the second in weeks 1 and 3, and one
\* event of the first user at firm 0.
PairEvents ==
    { Event(1, 1, "ASSISTANT", Day(1), 3, Some(5)),
      Event(2, 1, "ASSISTANT", Day(8), 3, Some(4)),
      Event(1, 1, "ASSISTANT", Day(22), 3, Some(4)),
      Event(2, 1, "ASSISTANT", Day(23), 3, Some(3)),
      Event(1, 0, "ASSISTANT", Day(2), 3, Some(4)) }

PairInputs ==
    { [users |-> <<User(1, Day(0), "Associate"), User(2, Day(0), "Partner")>>,
       firms |-> <<Firm(1, 150, 250), Firm(0, 600, 50)>>,
       events |-> e] : e \in SeqsUpTo(PairEvents, MaxPairEvents) }

Inputs == SeriesInputs \cup RefInputs \cup QualityInputs \cup PairInputs

-----------------------------------------------------------------------------
(* Lookups *)

\* df[df[c] == v]: the rows of df whose column c is v
Where(df, c, v) == SelectSeq(df, LAMBDA r : r[c] = v)

HasUser(us, id) == \E i \in 1..Len(us) : us[i].user_id = id

HasFirm(fs, id) == \E i \in 1..Len(fs) : fs[i].firm_id = id

\* users_df[users_df['user_id'] == id].iloc[0]
user_info(us, id) == Head(Where(us, "user_id", id))

\* firms_df[firms_df['firm_id'] == id].iloc[0]
firm_info(fs, id) == Head(Where(fs, "firm_id", id))

\* Series.dt.date.nunique()
NUniqueDates(evs) == Cardinality({DateOf(evs[i].event_created_at) : i \in 1..Len(evs)})

RECURSIVE Concat(_)
Concat(ss) == IF ss = <<>> THEN <<>> ELSE Head(ss) \o Concat(Tail(ss))

-----------------------------------------------------------------------------
(* simulate_user_engagement *)

\* events_df['month']
EventMonths(evs) == [i \in 1..Len(evs) |-> MonthOf(evs[i].event_created_at)]

\* the events of one calendar month, in row order
MonthEvents(evs, month) ==
    SelectSeq(evs, LAMBDA e : MonthOf(e.event_created_at) = month)

\* one row of engagement_data
EngagementRow(us, evs, month, user_id) ==
    LET user_events == Where(MonthEvents(evs, month), "user_id", user_id)
        query_count == Len(user_events)
        active_days == NUniqueDates(user_events)
    IN  [user_id |-> user_id,
         firm_id |-> user_events[1].firm_id,
         user_title |-> user_info(us, user_id).user_title,
         month |-> month,
         query_count |-> query_count,
         active_days |-> active_days,
         total_documents_processed |-> SumSeq(Column(user_events, "num_docs")),
         avg_feedback_score |-> RoundedMean(Column(user_events, "feedback_score")),
         engagement_level |-> engagement_level(query_count, active_days)]

\* the loop over the months of all rows of events_df, without unique()
EngagementTable_every_row(us, evs) ==
    LET months == EventMonths(evs)
        rows(month) ==
            LET ids == Unique(Column(MonthEvents(evs, month), "user_id"))
            IN  [i \in 1..Len(ids) |-> EngagementRow(us, evs, month, ids[i])]
    IN  Concat([m \in 1..Len(months) |-> rows(months[m])])

\* engagement_data: months in order of first appearance, and within a month
\* the users in order of first appearance
EngagementTable(us, evs) ==
    LET months == Unique(EventMonths(evs))
        rows(month) ==
            LET ids == Unique(Column(MonthEvents(evs, month), "user_id"))
            IN  [i \in 1..Len(ids) |-> EngagementRow(us, evs, month, ids[i])]
    IN  Concat([m \in 1..Len(months) |-> rows(months[m])])

\* the exception simulate_user_engagement ends with, "" when it returns:
\* .iloc[0] of an empty selection (an event of an unknown user), or a column
\* of the empty frame pd.DataFrame([]) (no event at all)
EngagementRaises(us, evs) ==
    IF \E i \in 1..Len(evs) : ~HasUser(us, evs[i].user_id) THEN "IndexError"
    ELSE IF evs = <<>> THEN "KeyError"
    ELSE ""

-----------------------------------------------------------------------------
(* simulate_cohort_analysis *)

\* events_df[events_df['user_id'] == user_id]
UserEvents(evs, user_id) == Where(evs, "user_id", user_id)

\* the six rows of one user, the window starting a month after the signup
CohortRows_from_next_month(us, evs, user_id) ==
    LET info == user_info(us, user_id)
        user_events == UserEvents(evs, user_id)
        cohort_month == MonthOf(info.user_created_date)
        row(months_since_signup) ==
            LET month_events == MonthEvents(user_events, cohort_month + months_since_signup)
            IN  [user_id |-> user_id,
                 cohort_month |-> cohort_month,
                 user_title |-> info.user_title,
                 months_since_signup |-> months_since_signup,
                 is_retained |-> IF Len(month_events) > 0 THEN 1 ELSE 0,
                 events_count |-> Len(month_events),
                 active_days |-> IF Len(month_events) > 0
                                 THEN NUniqueDates(month_events) ELSE 0]
    IN  [k \in 1..6 |-> row(k)]

\* the six rows of one user with events
CohortRows(us, evs, user_id) ==
    LET info == user_info(us, user_id)
        user_events == UserEvents(evs, user_id)
        cohort_month == MonthOf(info.user_created_date)
        row(months_since_signup) ==
            LET month_events == MonthEvents(user_events, cohort_month + months_since_signup)
            IN  [user_id |-> user_id,
                 cohort_month |-> cohort_month,
                 user_title |-> info.user_title,
                 months_since_signup |-> months_since_signup,
                 is_retained |-> IF Len(month_events) > 0 THEN 1 ELSE 0,
                 events_count |-> Len(month_events),
                 active_days |-> IF Len(month_events) > 0
                                 THEN NUniqueDates(month_events) ELSE 0]
    IN  [k \in 1..6 |-> row(k - 1)]

\* cohort_data: the users in table order, those without events skipped
CohortTable(us, evs) ==
    LET ids == Unique(Column(us, "user_id"))
    IN  Concat([i \in 1..Len(ids) |->
                  IF Len(UserEvents(evs, ids[i])) = 0 THEN <<>>
                  ELSE CohortRows(us, evs, ids[i])])

\* groupby on the columns of the empty frame pd.DataFrame([]): no user has events
CohortRaises(us, evs) ==
    IF CohortTable(us, evs) = <<>> THEN "KeyError" ELSE ""

-----------------------------------------------------------------------------
(* simulate_user_acquisition_metrics and simulate_user_acquisition_base *)

\* Series.min() of a non-empty sequence of timestamps
MinOf(s) == CHOOSE m \in Range(s) : \A x \in Range(s) : m <= x

\* first_activity: the earliest event time, None without events
FirstActivity(user_events) ==
    IF Len(user_events) > 0
    THEN Some(MinOf(Column(user_events, "event_created_at")))
    ELSE None

\* the latency taken between the two calendar dates, whatever the times of day
DaysToFirstActivity_dates(first_activity, user_created_date) ==
    IF IsNone(first_activity) THEN None
    ELSE Some(DateOf(Val(first_activity)) - DateOf(user_created_date))

\* days_to_first_activity: .days of the difference of the two timestamps
DaysToFirstActivity(first_activity, user_created_date) ==
    IF IsNone(first_activity) THEN None
    ELSE Some(DaysBetween(Val(first_activity), user_created_date))

\* firm_id taken from the earliest event instead of the first row
FirstFirmId_earliest(user_events) ==
    IF Len(user_events) > 0
    THEN Some((CHOOSE e \in Range(user_events) :
                  \A x \in Range(user_events) :
                      e.event_created_at <= x.event_created_at).firm_id)
    ELSE None

\* firm_id: that of the user's first event in row order, None without events
FirstFirmId(user_events) ==
    IF Len(user_events) > 0 THEN Some(user_events[1].firm_id) ELSE None

\* the flag refused to a latency below zero
AtMost_nonnegative(days, n) ==
    IF ~IsNone(days) /\ 0 <= Val(days) /\ Val(days) <= n THEN 1 ELSE 0

\* 1 if days_to_first_activity is not None and days_to_first_activity <= n else 0
AtMost(days, n) == IF ~IsNone(days) /\ Val(days) <= n THEN 1 ELSE 0

\* one row of acquisition_data
AcquisitionRow(us, evs, user_id) ==
    LET info == user_info(us, user_id)
        user_events == UserEvents(evs, user_id)
        first_activity == FirstActivity(user_events)
        days == DaysToFirstActivity(first_activity, info.user_created_date)
    IN  [user_id |-> user_id,
         acquisition_month |-> MonthOf(info.user_created_date),
         user_title |-> info.user_title,
         firm_id |-> FirstFirmId(user_events),
         days_to_first_activity |-> days,
         is_activated |-> IF ~IsNone(first_activity) THEN 1 ELSE 0,
         is_quick_start |-> AtMost(days, 7),
         total_events |-> Len(user_events),
         avg_satisfaction_score |-> Mean(Column(user_events, "feedback_score"))]

AcquisitionTable(us, evs) ==
    LET ids == Unique(Column(us, "user_id"))
    IN  [i \in 1..Len(ids) |-> AcquisitionRow(us, evs, ids[i])]

\* groupby on the columns of the empty frame pd.DataFrame([]): no user
AcquisitionRaises(us, evs) ==
    IF us = <<>> THEN "KeyError" ELSE ""

\* 'if firm_id': a firm is looked up unless the user has no event or the
\* firm_id taken from the first event is 0
LooksUpFirm(firm_id) == ~IsNone(firm_id) /\ Val(firm_id) # 0

\* the activation ladder with its first rung at zero days
activation_category_same_day(is_activated, days_to_first_activity) ==
    IF is_activated = 1 /\ ~IsNone(days_to_first_activity)
    THEN IF Val(days_to_first_activity) <= 0 THEN "Immediate Activation"
         ELSE IF Val(days_to_first_activity) <= 7 THEN "Quick Activation"
         ELSE IF Val(days_to_first_activity) <= 30 THEN "Standard Activation"
         ELSE "Delayed Activation"
    ELSE "Not Activated"

activation_category(is_activated, days_to_first_activity) ==
    IF is_activated = 1 /\ ~IsNone(days_to_first_activity)
    THEN IF Val(days_to_first_activity) <= 1 THEN "Immediate Activation"
         ELSE IF Val(days_to_first_activity) <= 7 THEN "Quick Activation"
         ELSE IF Val(days_to_first_activity) <= 30 THEN "Standard Activation"
         ELSE "Delayed Activation"
    ELSE "Not Activated"

\* avg_satisfaction is None without events and the mean of the present scores
\* otherwise: NaN (here None) when no event has a score, and every
\* comparison with NaN is false
satisfaction_category(has_events, mean) ==
    IF has_events
    THEN IF ~IsNone(mean) /\ 2 * Val(mean).sum >= 9 * Val(mean).count
         THEN "High Satisfaction"
         ELSE IF ~IsNone(mean) /\ Val(mean).sum >= 4 * Val(mean).count
         THEN "Good Satisfaction"
         ELSE IF ~IsNone(mean) /\ 2 * Val(mean).sum >= 7 * Val(mean).count
         THEN "Fair Satisfaction"
         ELSE "Low Satisfaction"
    ELSE "No Feedback"

\* one row of acquisition_base_data
AcquisitionBaseRow(us, fs, evs, user_id) ==
    LET info == user_info(us, user_id)
        user_events == UserEvents(evs, user_id)
        firm_id == FirstFirmId(user_events)
        has_firm == LooksUpFirm(firm_id)
        firm == firm_info(fs, Val(firm_id))
        first_activity == FirstActivity(user_events)
        days == DaysToFirstActivity(first_activity, info.user_created_date)
        is_activated == IF ~IsNone(first_activity) THEN 1 ELSE 0
        avg_satisfaction == Mean(Column(user_events, "feedback_score"))
    IN  [user_id |-> user_id,
         user_title |-> info.user_title,
         user_created_date |-> info.user_created_date,
         firm_id |-> firm_id,
         firm_size |-> IF has_firm THEN Some(firm.firm_size) ELSE None,
         arr_in_thousands |-> IF has_firm THEN Some(firm.arr_in_thousands) ELSE None,
         acquisition_month |-> MonthOf(info.user_created_date),
         first_activity_date |-> first_activity,
         days_to_first_activity |-> days,
         total_events |-> Len(user_events),
         active_days |-> IF Len(user_events) > 0 THEN NUniqueDates(user_events) ELSE 0,
         avg_satisfaction_score |-> avg_satisfaction,
         total_documents_processed |->
             IF Len(user_events) > 0 THEN SumSeq(Column(user_events, "num_docs")) ELSE 0,
         is_activated |-> is_activated,
         is_quick_start |-> AtMost(days, 7),
         is_monthly_activated |-> AtMost(days, 30),
         firm_size_category |->
             IF has_firm THEN firm_size_category(firm.firm_size) ELSE "Unknown",
         arr_category |->
             IF has_firm THEN arr_category(firm.arr_in_thousands) ELSE "Unknown",
         activation_category |-> activation_category(is_activated, days),
         satisfaction_category |->
             satisfaction_category(Len(user_events) > 0, avg_satisfaction)]

AcquisitionBaseTable(us, fs, evs) ==
    LET ids == Unique(Column(us, "user_id"))
    IN  [i \in 1..Len(ids) |-> AcquisitionBaseRow(us, fs, evs, ids[i])]

\* .iloc[0] of an empty selection (the firm of a user's first event is not in
\* firms_df), or a column of the empty frame pd.DataFrame([]) (no user)
AcquisitionBaseRaises(us, fs, evs) ==
    IF \E i \in 1..Len(us) :
          LET firm_id == FirstFirmId(UserEvents(evs, us[i].user_id))
          IN  LooksUpFirm(firm_id) /\ ~HasFirm(fs, Val(firm_id))
    THEN "IndexError"
    ELSE IF us = <<>> THEN "KeyError"
    ELSE ""

-----------------------------------------------------------------------------
(* simulate_event_performance_metrics: the base rows *)

\* Python's None in a column of strings
NoneStr == "None"

\* one row of event_performance_data; event_id is the row's index label
EventPerformanceRow(us, fs, evs, i) ==
    LET event == evs[i]
        user == user_info(us, event.user_id)
        firm == firm_info(fs, event.firm_id)
        user_tenure_days == DaysBetween(event.event_created_at, user.user_created_date)
    IN  [event_id |-> i - 1,
         event_type |-> event.event_type,
         event_created_at |-> event.event_created_at,
         num_docs |-> event.num_docs,
         feedback_score |-> event.feedback_score,
         user_id |-> event.user_id,
         user_title |-> user.user_title,
         user_created_date |-> user.user_created_date,
         firm_id |-> event.firm_id,
         firm_size |-> firm.firm_size,
         arr_in_thousands |-> firm.arr_in_thousands,
         event_month |-> MonthOf(event.event_created_at),
         event_week |-> WeekOf(event.event_created_at),
         event_date |-> DateOf(event.event_created_at),
         user_tenure_days |-> user_tenure_days,
         high_satisfaction_event |->
             IF ~IsNone(event.feedback_score) /\ Val(event.feedback_score) >= 4
             THEN 1 ELSE 0,
         high_volume_event |-> IF event.num_docs >= 10 THEN 1 ELSE 0,
         user_segment |-> user_segment(user_tenure_days)]

EventPerformanceTable(us, fs, evs) ==
    [i \in 1..Len(evs) |-> EventPerformanceRow(us, fs, evs, i)]

\* .iloc[0] of an empty selection (an event of an unknown user or firm), or
\* groupby on the columns of the empty frame pd.DataFrame([]) (no event)
EventPerformanceRaises(us, fs, evs) ==
    IF \E i \in 1..Len(evs) :
          ~HasUser(us, evs[i].user_id) \/ ~HasFirm(fs, evs[i].firm_id)
    THEN "IndexError"
    ELSE IF evs = <<>> THEN "KeyError"
    ELSE ""

-----------------------------------------------------------------------------
(* DataFrame.groupby(keys).agg(...).reset_index() *)

\* the columns that hold strings, which may be missing (NaN)
StringColumns == {"event_type", "user_title", "user_segment"}

\* the strings of the model in Python's order of strings
StrOrder ==
    <<"ASSISTANT", "Associate", "Established User", "Long-term User",
      "New User", "Partner", "Recent User", "WORKFLOW">>

StrRank(str) == CHOOSE i \in 1..Len(StrOrder) : StrOrder[i] = str

IsNull(row, col) == col \in StringColumns /\ row[col] = NaN

\* the key of a row: its values in the key columns
KeyOf(row, keys) == [j \in 1..Len(keys) |-> row[keys[j]]]

\* groupby drops the rows with a missing key (dropna=True)
HasKey(row, keys) == \A j \in 1..Len(keys) : ~IsNull(row, keys[j])

KeyRank(key, keys) ==
    [j \in 1..Len(keys) |->
        IF keys[j] \in StringColumns THEN StrRank(key[j]) ELSE key[j]]

\* a <= b in the lexicographic order of two tuples of integers of one length
LexLeq(a, b) ==
    \/ a = b
    \/ \E j \in 1..Len(a) :
          /\ a[j] < b[j]
          /\ \A k \in 1..(j - 1) : a[k] = b[k]

\* the keys in sorted order (sort=True)
RECURSIVE SortKeys(_, _)
SortKeys(S, keys) ==
    IF S = {} THEN <<>>
    ELSE LET least == CHOOSE x \in S :
                         \A y \in S : LexLeq(KeyRank(x, keys), KeyRank(y, keys))
         IN  <<least>> \o SortKeys(S \ {least}, keys)

GroupKeys(df, keys) ==
    SortKeys({KeyOf(df[i], keys) : i \in {i \in 1..Len(df) : HasKey(df[i], keys)}}, keys)

\* the rows of one group
GroupRows(df, keys, key) ==
    SelectSeq(df, LAMBDA r : HasKey(r, keys) /\ KeyOf(r, keys) = key)

\* the aggregates with total_events as the number of distinct event dates of
\* the group instead of the count of its event_id values
Aggregates_nunique_dates(rows) ==
    [total_events |-> Cardinality(Range(Column(rows, "event_date"))),
     unique_users |-> Cardinality(Range(Column(rows, "user_id")) \ {NaNId}),
     unique_firms |-> Cardinality(Range(Column(rows, "firm_id"))),
     total_documents_processed |-> SumSeq(Column(rows, "num_docs")),
     avg_documents_per_event |->
         Mean([i \in 1..Len(rows) |-> Some(rows[i].num_docs)]),
     avg_satisfaction_score |-> Mean(Column(rows, "feedback_score")),
     high_satisfaction_events |-> SumSeq(Column(rows, "high_satisfaction_event")),
     high_volume_events |-> SumSeq(Column(rows, "high_volume_event"))]

\* the aggregates of one group, under the names the code then gives the columns
Aggregates(rows) ==
    [total_events |-> Len(Column(rows, "event_id")),
     unique_users |-> Cardinality(Range(Column(rows, "user_id")) \ {NaNId}),
     unique_firms |-> Cardinality(Range(Column(rows, "firm_id"))),
     total_documents_processed |-> SumSeq(Column(rows, "num_docs")),
     avg_documents_per_event |->
         Mean([i \in 1..Len(rows) |-> Some(rows[i].num_docs)]),
     avg_satisfaction_score |-> Mean(Column(rows, "feedback_score")),
     high_satisfaction_events |-> SumSeq(Column(rows, "high_satisfaction_event")),
     high_volume_events |-> SumSeq(Column(rows, "high_volume_event"))]

\* the key columns of one group
KeyColumns(keys, key) == [c \in Range(keys) |->
                            key[CHOOSE j \in 1..Len(keys) : keys[j] = c]]

\* one row per group, in the order of the sorted keys
GroupByAgg(df, keys) ==
    LET gk == GroupKeys(df, keys)
    IN  [g \in 1..Len(gk) |->
            KeyColumns(keys, gk[g]) @@ Aggregates(GroupRows(df, keys, gk[g]))]

\* df[col] = value, on one row
With(row, col, value) == (col :> value) @@ row

\* df[[cols]], on one row
Select(row, cols) == [c \in cols |-> row[c]]

\* the satisfaction rate taken over the events of the group that have a score
WithRates_over_scored(row) ==
    With(With(row,
        "satisfaction_rate_pct",
            RatePct(row.high_satisfaction_events,
                    IF IsNone(row.avg_satisfaction_score) THEN row.total_events
                    ELSE Val(row.avg_satisfaction_score).count)),
        "high_volume_rate_pct",
            RatePct(row.high_volume_events, row.total_events))

\* satisfaction_rate_pct and high_volume_rate_pct
WithRates(row) ==
    With(With(row,
        "satisfaction_rate_pct",
            RatePct(row.high_satisfaction_events, row.total_events)),
        "high_volume_rate_pct",
            RatePct(row.high_volume_events, row.total_events))

\* (total / unique_users).round(2): the division of two columns is not
\* guarded, a zero divisor gives NaN for a zero total and inf otherwise
PerUser(total, unique_users) ==
    IF unique_users # 0 THEN Some(Ratio(total, unique_users))
    ELSE IF total = 0 THEN None
    ELSE Some(Inf)

\* events_per_user turned upside down: the users per event
WithPerUser_inverted(row) ==
    With(With(row,
        "documents_per_user",
            PerUser(row.total_documents_processed, row.unique_users)),
        "events_per_user",
            PerUser(row.unique_users, row.total_events))

\* documents_per_user and events_per_user
WithPerUser(row) ==
    With(With(row,
        "documents_per_user",
            PerUser(row.total_documents_processed, row.unique_users)),
        "events_per_user",
            PerUser(row.total_events, row.unique_users))

\* time_grain and time_period
WithGrain(row, grain, period_col) ==
    With(With(row, "time_grain", grain), "time_period", row[period_col])

-----------------------------------------------------------------------------
(* simulate_event_performance_metrics: the three rollups and their union *)

DailyKeys == <<"event_date", "event_type", "user_title", "user_segment">>

WeeklyKeys == <<"event_week", "event_type", "user_title">>

MonthlyKeys == <<"event_month", "event_type", "user_title", "user_segment">>

DailyMetrics(df) ==
    LET g == GroupByAgg(df, DailyKeys)
    IN  [i \in 1..Len(g) |->
            WithGrain(WithPerUser(WithRates(g[i])), "daily", "event_date")]

\* shift(1) on the whole table, without the groupby: the row above
PrevWeekEvents_ungrouped(g, i) ==
    IF i = 1 THEN None ELSE Some(g[i - 1].total_events)

\* the previous count read from the calendar week just before, None when the
\* series has no row for that week
PrevWeekEvents_calendar(g, i) ==
    LET before == {j \in 1..Len(g) :
                      /\ g[j].event_type = g[i].event_type
                      /\ g[j].user_title = g[i].user_title
                      /\ g[j].event_week = g[i].event_week - 1}
    IN  IF before = {} THEN None
        ELSE Some(g[CHOOSE j \in before : TRUE].total_events)

\* groupby(['event_type', 'user_title'])['total_events'].shift(1): the
\* total_events of the nearest row above in the same series, None if none
PrevWeekEvents(g, i) ==
    LET above == {j \in 1..(i - 1) :
                     /\ g[j].event_type = g[i].event_type
                     /\ g[j].user_title = g[i].user_title}
    IN  IF above = {} THEN None
        ELSE Some(g[CHOOSE j \in above : \A k \in above : k <= j].total_events)

WeeklyMetrics(df) ==
    LET g == GroupByAgg(df, WeeklyKeys)
        withPrev(i) == With(WithRates(g[i]), "prev_week_events", PrevWeekEvents(g, i))
        withGrowth(i) ==
            With(withPrev(i), "week_over_week_growth_pct",
                 week_over_week_growth_pct(g[i].total_events, PrevWeekEvents(g, i)))
    IN  [i \in 1..Len(g) |-> WithGrain(withGrowth(i), "weekly", "event_week")]

\* a comparison with NaN (no score in the group) is false
satisfaction_performance(mean) ==
    IF ~IsNone(mean) /\ 2 * Val(mean).sum >= 9 * Val(mean).count THEN "Excellent"
    ELSE IF ~IsNone(mean) /\ Val(mean).sum >= 4 * Val(mean).count THEN "Good"
    ELSE IF ~IsNone(mean) /\ 2 * Val(mean).sum >= 7 * Val(mean).count THEN "Fair"
    ELSE "Needs Improvement"

volume_performance(total_events) ==
    IF total_events >= 1000 THEN "High Volume"
    ELSE IF total_events >= 500 THEN "Medium Volume"
    ELSE IF total_events >= 100 THEN "Low Volume"
    ELSE "Minimal Volume"

MonthlyMetrics(df) ==
    LET g == GroupByAgg(df, MonthlyKeys)
        perf(row) ==
            With(With(row,
                "satisfaction_performance",
                    satisfaction_performance(row.avg_satisfaction_score)),
                "volume_performance", volume_performance(row.total_events))
    IN  [i \in 1..Len(g) |->
            WithGrain(perf(WithPerUser(WithRates(g[i]))), "monthly", "event_month")]

\* the columns every grain has
CommonColumns ==
    {"time_grain", "time_period", "event_type", "user_title", "total_events",
     "unique_users", "unique_firms", "total_documents_processed",
     "avg_documents_per_event", "avg_satisfaction_score",
     "high_satisfaction_events", "high_volume_events", "satisfaction_rate_pct",
     "high_volume_rate_pct"}

DailyColumns ==
    CommonColumns \cup {"user_segment", "documents_per_user", "events_per_user"}

WeeklyColumns == CommonColumns \cup {"week_over_week_growth_pct"}

MonthlyColumns ==
    CommonColumns \cup {"user_segment", "events_per_user", "documents_per_user",
                        "satisfaction_performance", "volume_performance"}

\* daily_union, with the columns added to align the schemas
DailyUnion(row) ==
    With(With(With(Select(row, DailyColumns),
        "week_over_week_growth_pct", None),
        "satisfaction_performance", NoneStr),
        "volume_performance", NoneStr)

\* weekly_union with the per-user ratios filled with zero
WeeklyUnion_zero(row) ==
    With(With(With(With(With(Select(row, WeeklyColumns),
        "user_segment", NoneStr),
        "documents_per_user", Some(0)),
        "events_per_user", Some(0)),
        "satisfaction_performance", NoneStr),
        "volume_performance", NoneStr)

\* weekly_union, with the columns added to align the schemas
WeeklyUnion(row) ==
    With(With(With(With(With(Select(row, WeeklyColumns),
        "user_segment", NoneStr),
        "documents_per_user", None),
        "events_per_user", None),
        "satisfaction_performance", NoneStr),
        "volume_performance", NoneStr)

\* monthly_union, with the column added to align the schemas
MonthlyUnion(row) ==
    With(Select(row, MonthlyColumns), "week_over_week_growth_pct", None)

\* the concatenation with the monthly rows before the weekly rows
CombinedMetrics_reordered(daily, weekly, monthly) ==
    [i \in 1..Len(daily) |-> DailyUnion(daily[i])]
    \o [i \in 1..Len(monthly) |-> MonthlyUnion(monthly[i])]
    \o [i \in 1..Len(weekly) |-> WeeklyUnion(weekly[i])]

\* pd.concat([daily_union, weekly_union, monthly_union], ignore_index=True)
CombinedMetrics(daily, weekly, monthly) ==
    [i \in 1..Len(daily) |-> DailyUnion(daily[i])]
    \o [i \in 1..Len(weekly) |-> WeeklyUnion(weekly[i])]
    \o [i \in 1..Len(monthly) |-> MonthlyUnion(monthly[i])]

-----------------------------------------------------------------------------
(* analyze_completeness *)

UsersColumns == {"user_id", "user_created_date", "user_title"}

FirmsColumns == {"firm_id", "firm_created_date", "firm_size", "arr_in_thousands"}

EventsColumns ==
    {"user_id", "firm_id", "event_type", "event_created_at", "num_docs",
     "feedback_score"}

\* how a missing cell of a column reads; the other columns have none
MissingCell ==
    [user_id |-> NaNId, user_title |-> NaN, event_type |-> NaN,
     feedback_score |-> None]

\* df.isnull().sum(): for every column the number of its missing cells
IsNullSum(df, columns) ==
    [c \in columns |->
        IF c \in DOMAIN MissingCell
        THEN Len(SelectSeq(df, LAMBDA r : r[c] = MissingCell[c]))
        ELSE 0]

\* sum(...) of such a count per column
SumColumns(counts) ==
    LET cols == DOMAIN counts
        order == CHOOSE o \in [1..Cardinality(cols) -> cols] :
                     \A c \in cols : \E i \in DOMAIN o : o[i] = c
    IN  SumSeq([i \in DOMAIN order |-> counts[order[i]]])

-----------------------------------------------------------------------------
(* analyze_anomalies *)

\* the values of a sequence in ascending order
RECURSIVE SortAsc(_)
SortAsc(s) ==
    IF s = <<>> THEN <<>>
    ELSE LET least == CHOOSE i \in 1..Len(s) : \A j \in 1..Len(s) : s[i] <= s[j]
         IN  <<s[least]>> \o
             SortAsc([j \in 1..(Len(s) - 1) |-> IF j < least THEN s[j] ELSE s[j + 1]])

\* Series.quantile(k / 4) of a non-empty sequence, four times over: linear
\* interpolation between the two values around position (n - 1) * k / 4
Quantile4(s, k) ==
    LET x == SortAsc(s)
        pos == (Len(s) - 1) * k
        lo == pos \div 4 + 1
        r == pos % 4
    IN  IF r = 0 THEN 4 * x[lo] ELSE x[lo] * (4 - r) + x[lo + 1] * r

\* eight times Q1 - 1.5 * IQR
LowerBound8(s) ==
    2 * Quantile4(s, 1) - 3 * (Quantile4(s, 3) - Quantile4(s, 1))

\* eight times Q3 + 1.5 * IQR
UpperBound8(s) ==
    2 * Quantile4(s, 3) + 3 * (Quantile4(s, 3) - Quantile4(s, 1))

\* events_df['feedback_score'].dropna()
FeedbackScores(evs) ==
    LET scored == SelectSeq(evs, LAMBDA e : ~IsNone(e.feedback_score))
    IN  [i \in 1..Len(scored) |-> Val(scored[i].feedback_score)]

\* the scores below the lower or above the upper bound; none without scores
Outliers(evs) ==
    LET feedback_scores == FeedbackScores(evs)
    IN  IF Len(feedback_scores) > 0
        THEN SelectSeq(feedback_scores,
                       LAMBDA v : \/ 8 * v < LowerBound8(feedback_scores)
                                  \/ 8 * v > UpperBound8(feedback_scores))
        ELSE <<>>

\* events_df[events_df['num_docs'] > upper_bound_docs], of a non-empty events_df
ExtremeDocs(evs) ==
    SelectSeq(evs, LAMBDA e : 8 * e.num_docs > UpperBound8(Column(evs, "num_docs")))

\* the selection without the negation: the users that have events
OrphanedUsers_not_negated(us, evs) ==
    SelectSeq(us, LAMBDA u : u.user_id \in Range(Unique(Column(evs, "user_id"))))

\* users_df[~users_df['user_id'].isin(events_df['user_id'].unique())]
OrphanedUsers(us, evs) ==
    SelectSeq(us, LAMBDA u : u.user_id \notin Range(Unique(Column(evs, "user_id"))))

\* len(orphaned_users) / len(users_df) of an empty users_df
\* and len(extreme_docs) / len(events_df) of an empty events_df
AnomaliesRaises(us, evs) ==
    IF us = <<>> \/ evs = <<>> THEN "ZeroDivisionError" ELSE ""

-----------------------------------------------------------------------------
(* analyze_consistency *)

\* events_df.merge(users_df[['user_id', 'user_created_date']], on='user_id',
\* how='left'): every event in row order, once per user record of its
\* user_id, or once with a missing user_created_date when there is none
EventsUsers(us, evs) ==
    Concat([i \in 1..Len(evs) |->
        LET matches == Where(us, "user_id", evs[i].user_id)
        IN  IF matches = <<>>
            THEN <<With(evs[i], "user_created_date", None)>>
            ELSE [j \in 1..Len(matches) |->
                    With(evs[i], "user_created_date",
                         Some(matches[j].user_created_date))]])

\* the timeline issues taken as at or before the creation of the user
TimelineIssues_not_after(us, evs) ==
    SelectSeq(EventsUsers(us, evs),
              LAMBDA r : /\ ~IsNone(r.user_created_date)
                         /\ r.event_created_at <= Val(r.user_created_date))

\* events_users[event_created_at < user_created_date]: a comparison with a
\* missing user_created_date is false
TimelineIssues(us, evs) ==
    SelectSeq(EventsUsers(us, evs),
              LAMBDA r : /\ ~IsNone(r.user_created_date)
                         /\ r.event_created_at < Val(r.user_created_date))

\* Series.between(1, 5): false for a missing score
Between(score, low, high) ==
    ~IsNone(score) /\ low <= Val(score) /\ Val(score) <= high

\* the invalid scores taken as those above 5 only
InvalidFeedback_above(evs) ==
    SelectSeq(evs, LAMBDA e : ~IsNone(e.feedback_score) /\ Val(e.feedback_score) > 5)

\* events_df[~events_df['feedback_score'].between(1, 5)]
InvalidFeedback(evs) ==
    SelectSeq(evs, LAMBDA e : ~Between(e.feedback_score, 1, 5))

\* events_df['feedback_score'].isnull().sum()
MissingFeedback(evs) ==
    Len(SelectSeq(evs, LAMBDA e : IsNone(e.feedback_score)))

\* events_df[events_df['num_docs'] <= 0]
InvalidDocs(evs) == SelectSeq(evs, LAMBDA e : e.num_docs <= 0)

\* len(timeline_issues) / len(events_df) of an empty events_df
ConsistencyRaises(evs) == IF evs = <<>> THEN "ZeroDivisionError" ELSE ""

-----------------------------------------------------------------------------
(* analyze_business_logic *)

\* the times datetime.now() may give: one among the dates of the inputs and
\* one after most of them
Clock == {Day(3), Day(65)}

\* df[df[col] == 0]
ZeroRows(df, col) == SelectSeq(df, LAMBDA r : r[col] = 0)

\* df[df[col] > current_date]
FutureRows(df, col, now) == SelectSeq(df, LAMBDA r : r[col] > now)

\* the future dates of one run, which reads the clock as now
FutureDates(us, fs, evs, now) ==
    [current_date |-> now,
     future_user_dates |-> FutureRows(us, "user_created_date", now),
     future_firm_dates |-> FutureRows(fs, "firm_created_date", now),
     future_event_dates |-> FutureRows(evs, "event_created_at", now)]

\* len(zero_arr_firms) / len(firms_df) of an empty firms_df, and the
\* percentages of the future dates over an empty users_df or events_df
BusinessLogicRaises(us, fs, evs) ==
    IF fs = <<>> \/ us = <<>> \/ evs = <<>> THEN "ZeroDivisionError" ELSE ""

-----------------------------------------------------------------------------
(* generate_summary_report *)

\* the counts generate_summary_report adds up, and the score it returns as
\* the fraction numerator / denominator
SummaryReport(us, fs, evs, completeness, consistency, business_logic, anomalies) ==
    LET total_records == Len(us) + Len(fs) + Len(evs)
        completeness_issues ==
            SumColumns(completeness.users_missing)
            + SumColumns(completeness.firms_missing)
            + SumColumns(completeness.events_missing)
        consistency_issues ==
            Len(consistency.invalid_feedback) + Len(consistency.invalid_docs)
            + Len(consistency.timeline_issues)
        business_logic_issues ==
            Len(business_logic.zero_arr_firms) + Len(business_logic.zero_size_firms)
            + Len(business_logic.future_user_dates)
            + Len(business_logic.future_firm_dates)
        anomaly_issues ==
            Len(anomalies.orphaned_users) + Len(anomalies.outliers)
            + Len(anomalies.extreme_docs)
        total_issues ==
            completeness_issues + consistency_issues + business_logic_issues
            + anomaly_issues
    IN  [total_records |-> total_records,
         completeness_issues |-> completeness_issues,
         consistency_issues |-> consistency_issues,
         business_logic_issues |-> business_logic_issues,
         anomaly_issues |-> anomaly_issues,
         total_issues |-> total_issues,
         overall_quality_score |->
             [numerator |-> (total_records - total_issues) * 100,
              denominator |-> total_records]]

\* the first of the four analyses to raise, "" if none does
AnalysesRaise(us, fs, evs) ==
    IF ConsistencyRaises(evs) # "" THEN ConsistencyRaises(evs)
    ELSE IF BusinessLogicRaises(us, fs, evs) # "" THEN BusinessLogicRaises(us, fs, evs)
    ELSE AnomaliesRaises(us, evs)

-----------------------------------------------------------------------------
(* The state machine *)

tables == <<engagement_df, cohort_df, acquisition_df, acquisition_base_df,
            event_performance_df, daily_metrics, weekly_metrics, monthly_metrics,
            combined_metrics, orphaned_users>>

inputs == <<users, firms, events>>

frames == <<loads, assigned>>

findings == <<timeline_issues, invalid_feedback, missing_feedback, invalid_docs,
              current_date, zero_arr_firms, zero_size_firms, future_user_dates,
              future_firm_dates, future_event_dates, rerun>>

quality == <<users_missing, firms_missing, events_missing, report>>

anomalies == <<outliers, extreme_docs>>

NoCall == [fn |-> "none", args |-> <<>>]

\* the classifications applied on their own, and their arguments
Calls ==
    {[fn |-> "firm_size_category", args |-> <<n>>] : n \in 0..MaxFirmSize}
    \cup {[fn |-> "arr_category", args |-> <<n>>] : n \in 0..MaxArr}
    \cup {[fn |-> "engagement_level", args |-> <<q, d>>] :
            q \in 0..MaxQueryCount, d \in 0..MaxActiveDays}
    \cup {[fn |-> "week_over_week_growth_pct", args |-> <<n, p>>] :
            n \in 0..MaxCount, p \in {None} \cup {Some(m) : m \in 0..MaxCount}}
    \cup {[fn |-> "activation_category", args |-> <<0, None>>]}
    \cup {[fn |-> "activation_category", args |-> <<1, Some(d)>>] :
            d \in (0 - MaxLatencyDays)..MaxLatencyDays}
    \cup {[fn |-> "user_segment", args |-> <<t>>] :
            t \in (0 - MaxTenureDays)..MaxTenureDays}

NoTables ==
    /\ engagement_df = <<>>
    /\ cohort_df = <<>>
    /\ acquisition_df = <<>>
    /\ acquisition_base_df = <<>>
    /\ event_performance_df = <<>>
    /\ daily_metrics = <<>>
    /\ weekly_metrics = <<>>
    /\ monthly_metrics = <<>>
    /\ combined_metrics = <<>>
    /\ orphaned_users = <<>>
    /\ loads = 0
    /\ assigned = {}
    /\ timeline_issues = <<>>
    /\ invalid_feedback = <<>>
    /\ missing_feedback = None
    /\ invalid_docs = <<>>
    /\ current_date = None
    /\ zero_arr_firms = <<>>
    /\ zero_size_firms = <<>>
    /\ future_user_dates = <<>>
    /\ future_firm_dates = <<>>
    /\ future_event_dates = <<>>
    /\ rerun = None
    /\ users_missing = <<>>
    /\ firms_missing = <<>>
    /\ events_missing = <<>>
    /\ outliers = <<>>
    /\ extreme_docs = <<>>
    /\ report = None

\* a run over one content of the three CSV files, not yet started
InitRun ==
    /\ \E inp \in Inputs :
          /\ users = inp.users
          /\ firms = inp.firms
          /\ events = inp.events
    /\ entry = "none"
    /\ pc = "start"
    /\ raised = ""
    /\ ret = None
    /\ stdout = <<>>
    /\ NoTables
    /\ call = NoCall
    /\ result = None

\* one classification about to be applied
InitCall ==
    /\ users = <<>>
    /\ firms = <<>>
    /\ events = <<>>
    /\ entry = "none"
    /\ pc = "call"
    /\ raised = ""
    /\ ret = None
    /\ stdout = <<>>
    /\ NoTables
    /\ call \in Calls
    /\ result = None

Init == InitRun \/ InitCall

\* an exception that is swallowed: the caller goes on as if the call returned
Ends_swallowed(exc, ok_pc, fail_pc, fail_ret) ==
    pc' = ok_pc /\ raised' = raised /\ ret' = ret

\* how a function ends: it returns (ok) or raises exc
Ends(exc, ok_pc, fail_pc, fail_ret) ==
    IF exc = ""
    THEN pc' = ok_pc /\ raised' = raised /\ ret' = ret
    ELSE pc' = fail_pc /\ raised' = exc /\ ret' = fail_ret

\* the columns a simulation assigns on the frames it has loaded
DateColumns ==
    {<<"users_df", "user_created_date">>, <<"events_df", "event_created_at">>}

\* load_harvey_data() at the head of a simulation, and the assignments of
\* columns on the loaded frames that follow it
LoadAndAssign(columns) ==
    /\ loads' = loads + 1
    /\ assigned' = assigned \cup columns

simulate_user_engagement(ok_pc, fail_pc, fail_ret) ==
    LET exc == EngagementRaises(users, events)
    IN  /\ LoadAndAssign({<<"events_df", "month">>,
                           <<"users_df", "user_created_date">>})
        /\ Ends(exc, ok_pc, fail_pc, fail_ret)
        /\ engagement_df' = IF exc = "" THEN EngagementTable(users, events)
                            ELSE engagement_df
        /\ UNCHANGED <<cohort_df, acquisition_df, acquisition_base_df,
                       event_performance_df, daily_metrics, weekly_metrics,
                       monthly_metrics, combined_metrics, orphaned_users>>

simulate_cohort_analysis(ok_pc, fail_pc, fail_ret) ==
    LET exc == CohortRaises(users, events)
    IN  /\ LoadAndAssign(DateColumns)
        /\ Ends(exc, ok_pc, fail_pc, fail_ret)
        /\ cohort_df' = IF exc = "" THEN CohortTable(users, events) ELSE cohort_df
        /\ UNCHANGED <<engagement_df, acquisition_df, acquisition_base_df,
                       event_performance_df, daily_metrics, weekly_metrics,
                       monthly_metrics, combined_metrics, orphaned_users>>

simulate_user_acquisition_metrics(ok_pc, fail_pc, fail_ret) ==
    LET exc == AcquisitionRaises(users, events)
    IN  /\ LoadAndAssign(DateColumns)
        /\ Ends(exc, ok_pc, fail_pc, fail_ret)
        /\ acquisition_df' = IF exc = "" THEN AcquisitionTable(users, events)
                             ELSE acquisition_df
        /\ UNCHANGED <<engagement_df, cohort_df, acquisition_base_df,
                       event_performance_df, daily_metrics, weekly_metrics,
                       monthly_metrics, combined_metrics, orphaned_users>>

simulate_user_acquisition_base(ok_pc, fail_pc, fail_ret) ==
    LET exc == AcquisitionBaseRaises(users, firms, events)
    IN  /\ LoadAndAssign(DateColumns)
        /\ Ends(exc, ok_pc, fail_pc, fail_ret)
        /\ acquisition_base_df' =
              IF exc = "" THEN AcquisitionBaseTable(users, firms, events)
              ELSE acquisition_base_df
        /\ UNCHANGED <<engagement_df, cohort_df, acquisition_df,
                       event_performance_df, daily_metrics, weekly_metrics,
                       monthly_metrics, combined_metrics, orphaned_users>>

simulate_event_performance_metrics(ok_pc, fail_pc, fail_ret) ==
    LET exc == EventPerformanceRaises(users, firms, events)
        base == EventPerformanceTable(users, firms, events)
        daily == DailyMetrics(base)
        weekly == WeeklyMetrics(base)
        monthly == MonthlyMetrics(base)
    IN  /\ LoadAndAssign(DateColumns)
        /\ Ends(exc, ok_pc, fail_pc, fail_ret)
        /\ IF exc = ""
           THEN /\ event_performance_df' = base
                /\ daily_metrics' = daily
                /\ weekly_metrics' = weekly
                /\ monthly_metrics' = monthly
                /\ combined_metrics' = CombinedMetrics(daily, weekly, monthly)
           ELSE UNCHANGED <<event_performance_df, daily_metrics, weekly_metrics,
                            monthly_metrics, combined_metrics>>
        /\ UNCHANGED <<engagement_df, cohort_df, acquisition_df,
                       acquisition_base_df, orphaned_users>>

analyze_anomalies(ok_pc, fail_pc, fail_ret) ==
    LET exc == AnomaliesRaises(users, events)
    IN  /\ Ends(exc, ok_pc, fail_pc, fail_ret)
        /\ orphaned_users' = IF exc = "" THEN OrphanedUsers(users, events)
                             ELSE orphaned_users
        /\ outliers' = IF exc = "" THEN Outliers(events) ELSE outliers
        /\ extreme_docs' = IF exc = "" THEN ExtremeDocs(events) ELSE extreme_docs
        /\ UNCHANGED <<engagement_df, cohort_df, acquisition_df,
                       acquisition_base_df, event_performance_df, daily_metrics,
                       weekly_metrics, monthly_metrics, combined_metrics, frames>>

analyze_consistency(ok_pc, fail_pc, fail_ret) ==
    LET exc == ConsistencyRaises(events)
    IN  /\ Ends(exc, ok_pc, fail_pc, fail_ret)
        /\ IF exc = ""
           THEN /\ timeline_issues' = TimelineIssues(users, events)
                /\ invalid_feedback' = InvalidFeedback(events)
                /\ missing_feedback' = Some(MissingFeedback(events))
                /\ invalid_docs' = InvalidDocs(events)
           ELSE UNCHANGED <<timeline_issues, invalid_feedback, missing_feedback,
                            invalid_docs>>
        /\ UNCHANGED <<tables, frames, current_date, zero_arr_firms,
                       zero_size_firms, future_user_dates, future_firm_dates,
                       future_event_dates, rerun>>

\* the clock is read after the firms are counted: not at all with no firm
analyze_business_logic(now, ok_pc, fail_pc, fail_ret) ==
    LET exc == BusinessLogicRaises(users, firms, events)
        found == FutureDates(users, firms, events, now)
    IN  /\ Ends(exc, ok_pc, fail_pc, fail_ret)
        /\ current_date' = IF firms = <<>> THEN current_date ELSE Some(now)
        /\ IF exc = ""
           THEN /\ zero_arr_firms' = ZeroRows(firms, "arr_in_thousands")
                /\ zero_size_firms' = ZeroRows(firms, "firm_size")
                /\ future_user_dates' = found.future_user_dates
                /\ future_firm_dates' = found.future_firm_dates
                /\ future_event_dates' = found.future_event_dates
           ELSE UNCHANGED <<zero_arr_firms, zero_size_firms, future_user_dates,
                            future_firm_dates, future_event_dates>>
        /\ UNCHANGED <<tables, frames, timeline_issues, invalid_feedback,
                       missing_feedback, invalid_docs, rerun>>

\* the except branch of main(): the diagnostic that names the error
Diagnostic ==
    stdout' = IF raised' # "" THEN Append(stdout, <<"error", raised'>>) ELSE stdout

\* main() of model_results_simulation.py: the five simulations in order inside
\* one try block; an exception ends the run with return value 1
MainEngagement ==
    /\ pc = "start"
    /\ entry' = "main"
    /\ simulate_user_engagement("engagement", "failed", Some(1))
    /\ Diagnostic
    /\ UNCHANGED <<inputs, call, result, findings, quality, anomalies>>

MainCohort ==
    /\ pc = "engagement"
    /\ simulate_cohort_analysis("cohort", "failed", Some(1))
    /\ Diagnostic
    /\ UNCHANGED <<inputs, entry, call, result, findings, quality, anomalies>>

MainAcquisition ==
    /\ pc = "cohort"
    /\ simulate_user_acquisition_metrics("acquisition", "failed", Some(1))
    /\ Diagnostic
    /\ UNCHANGED <<inputs, entry, call, result, findings, quality, anomalies>>

MainAcquisitionBase ==
    /\ pc = "acquisition"
    /\ simulate_user_acquisition_base("acquisition_base", "failed", Some(1))
    /\ Diagnostic
    /\ UNCHANGED <<inputs, entry, call, result, findings, quality, anomalies>>

MainEventPerformance ==
    /\ pc = "acquisition_base"
    /\ simulate_event_performance_metrics("performance", "failed", Some(1))
    /\ Diagnostic
    /\ UNCHANGED <<inputs, entry, call, result, findings, quality, anomalies>>

\* the success banner and the summary, then return 0
MainReturn ==
    /\ pc = "performance"
    /\ pc' = "done"
    /\ ret' = Some(0)
    /\ stdout' = Append(stdout, <<"completed", "">>)
    /\ UNCHANGED <<inputs, entry, raised, tables, call, result, frames, findings,
                   quality, anomalies>>

\* each function called on its own
CallEngagement ==
    /\ pc = "start"
    /\ entry' = "simulate_user_engagement"
    /\ simulate_user_engagement("returned", "raised", None)
    /\ UNCHANGED <<stdout, inputs, call, result, findings, quality, anomalies>>

CallCohort ==
    /\ pc = "start"
    /\ entry' = "simulate_cohort_analysis"
    /\ simulate_cohort_analysis("returned", "raised", None)
    /\ UNCHANGED <<stdout, inputs, call, result, findings, quality, anomalies>>

CallAcquisition ==
    /\ pc = "start"
    /\ entry' = "simulate_user_acquisition_metrics"
    /\ simulate_user_acquisition_metrics("returned", "raised", None)
    /\ UNCHANGED <<stdout, inputs, call, result, findings, quality, anomalies>>

CallAcquisitionBase ==
    /\ pc = "start"
    /\ entry' = "simulate_user_acquisition_base"
    /\ simulate_user_acquisition_base("returned", "raised", None)
    /\ UNCHANGED <<stdout, inputs, call, result, findings, quality, anomalies>>

CallEventPerformance ==
    /\ pc = "start"
    /\ entry' = "simulate_event_performance_metrics"
    /\ simulate_event_performance_metrics("returned", "raised", None)
    /\ UNCHANGED <<stdout, inputs, call, result, findings, quality, anomalies>>

CallAnomalies ==
    /\ pc = "start"
    /\ entry' = "analyze_anomalies"
    /\ analyze_anomalies("returned", "raised", None)
    /\ UNCHANGED <<stdout, inputs, call, result, findings, quality>>

CallConsistency ==
    /\ pc = "start"
    /\ entry' = "analyze_consistency"
    /\ analyze_consistency("returned", "raised", None)
    /\ UNCHANGED <<stdout, inputs, call, result, quality, anomalies>>

CallBusinessLogic ==
    /\ pc = "start"
    /\ entry' = "analyze_business_logic"
    /\ \E now \in Clock : analyze_business_logic(now, "returned", "raised", None)
    /\ UNCHANGED <<stdout, inputs, call, result, quality, anomalies>>

\* analyze_completeness divides counts per column by the length of a frame,
\* which gives NaN or inf for an empty frame, and raises nothing
CallCompleteness ==
    /\ pc = "start"
    /\ entry' = "analyze_completeness"
    /\ pc' = "returned"
    /\ users_missing' = IsNullSum(users, UsersColumns)
    /\ firms_missing' = IsNullSum(firms, FirmsColumns)
    /\ events_missing' = IsNullSum(events, EventsColumns)
    /\ UNCHANGED <<stdout, inputs, raised, ret, tables, frames, findings, report,
                   anomalies, call, result>>

\* generate_summary_report on the results of analyze_completeness,
\* analyze_consistency, analyze_business_logic and analyze_anomalies of the
\* same three collections, assembled as main() assembles them; no report is
\* made when one of the analyses raises
CallSummaryReport ==
    /\ pc = "start"
    /\ entry' = "generate_summary_report"
    /\ \E now \in Clock :
          LET exc == AnalysesRaise(users, firms, events)
              completeness ==
                  [users_missing |-> IsNullSum(users, UsersColumns),
                   firms_missing |-> IsNullSum(firms, FirmsColumns),
                   events_missing |-> IsNullSum(events, EventsColumns)]
              consistency ==
                  [timeline_issues |-> TimelineIssues(users, events),
                   invalid_feedback |-> InvalidFeedback(events),
                   invalid_docs |-> InvalidDocs(events)]
              found == FutureDates(users, firms, events, now)
              business_logic ==
                  [zero_arr_firms |-> ZeroRows(firms, "arr_in_thousands"),
                   zero_size_firms |-> ZeroRows(firms, "firm_size"),
                   future_user_dates |-> found.future_user_dates,
                   future_firm_dates |-> found.future_firm_dates,
                   future_event_dates |-> found.future_event_dates]
              anomaly ==
                  [orphaned_users |-> OrphanedUsers(users, events),
                   outliers |-> Outliers(events),
                   extreme_docs |-> ExtremeDocs(events)]
          IN  /\ Ends(exc, "returned", "raised", None)
              /\ current_date' = IF events = <<>> \/ firms = <<>>
                                 THEN current_date ELSE Some(now)
              /\ IF exc = ""
                 THEN /\ users_missing' = completeness.users_missing
                      /\ firms_missing' = completeness.firms_missing
                      /\ events_missing' = completeness.events_missing
                      /\ timeline_issues' = consistency.timeline_issues
                      /\ invalid_feedback' = consistency.invalid_feedback
                      /\ missing_feedback' = Some(MissingFeedback(events))
                      /\ invalid_docs' = consistency.invalid_docs
                      /\ zero_arr_firms' = business_logic.zero_arr_firms
                      /\ zero_size_firms' = business_logic.zero_size_firms
                      /\ future_user_dates' = business_logic.future_user_dates
                      /\ future_firm_dates' = business_logic.future_firm_dates
                      /\ future_event_dates' = business_logic.future_event_dates
                      /\ orphaned_users' = anomaly.orphaned_users
                      /\ outliers' = anomaly.outliers
                      /\ extreme_docs' = anomaly.extreme_docs
                      /\ report' = Some(SummaryReport(users, firms, events,
                                       completeness, consistency, business_logic,
                                       anomaly))
                 ELSE UNCHANGED <<users_missing, firms_missing, events_missing,
                                  timeline_issues, invalid_feedback,
                                  missing_feedback, invalid_docs, zero_arr_firms,
                                  zero_size_firms, future_user_dates,
                                  future_firm_dates, future_event_dates,
                                  orphaned_users, outliers, extreme_docs, report>>
    /\ UNCHANGED <<stdout, inputs, engagement_df, cohort_df, acquisition_df,
                   acquisition_base_df, event_performance_df, daily_metrics,
                   weekly_metrics, monthly_metrics, combined_metrics, frames,
                   rerun, call, result>>

\* analyze_business_logic run once more on the same three collections
RerunBusinessLogic ==
    /\ entry = "analyze_business_logic"
    /\ pc = "returned"
    /\ IsNone(rerun)
    /\ \E now \in Clock : rerun' = Some(FutureDates(users, firms, events, now))
    /\ UNCHANGED <<stdout, inputs, entry, pc, raised, ret, tables, frames,
                   timeline_issues, invalid_feedback, missing_feedback,
                   invalid_docs, current_date, zero_arr_firms, zero_size_firms,
                   future_user_dates, future_firm_dates, future_event_dates,
                   call, result, quality, anomalies>>

\* the value of the classification named by call
Apply(c) ==
    IF c.fn = "firm_size_category" THEN Some(firm_size_category(c.args[1]))
    ELSE IF c.fn = "arr_category" THEN Some(arr_category(c.args[1]))
    ELSE IF c.fn = "engagement_level"
    THEN Some(engagement_level(c.args[1], c.args[2]))
    ELSE IF c.fn = "activation_category"
    THEN Some(activation_category(c.args[1], c.args[2]))
    ELSE IF c.fn = "user_segment" THEN Some(user_segment(c.args[1]))
    ELSE Some(week_over_week_growth_pct(c.args[1], c.args[2]))

Classify ==
    /\ pc = "call"
    /\ pc' = "returned"
    /\ result' = Apply(call)
    /\ UNCHANGED <<stdout, inputs, entry, raised, ret, tables, call, frames,
                   findings, quality, anomalies>>

Next ==
    \/ MainEngagement
    \/ MainCohort
    \/ MainAcquisition
    \/ MainAcquisitionBase
    \/ MainEventPerformance
    \/ MainReturn
    \/ CallEngagement
    \/ CallCohort
    \/ CallAcquisition
    \/ CallAcquisitionBase
    \/ CallEventPerformance
    \/ CallAnomalies
    \/ CallConsistency
    \/ CallBusinessLogic
    \/ CallCompleteness
    \/ CallSummaryReport
    \/ RerunBusinessLogic
    \/ Classify

Spec == Init /\ [][Next]_vars

-----------------------------------------------------------------------------
(* The threshold classifications: C1, C2, C3 *)

\* a classification applied on its own has returned
Applied(fn) == pc = "returned" /\ call.fn = fn

\* C1: the firm_size_category of a firm record is Small below 100, Medium
\* from 100 and below 200, Large from 200 and below 500 and Enterprise from
\* 500 on, both for the classification applied to any firm_size and in every
\* acquisition base row that carries a firm record.
C1_FirmSizeCategory ==
    LET expected(n) ==
            IF n < 100 THEN "Small"
            ELSE IF n < 200 THEN "Medium"
            ELSE IF n < 500 THEN "Large"
            ELSE "Enterprise"
    IN  /\ Applied("firm_size_category") => result = Some(expected(call.args[1]))
        /\ \A i \in 1..Len(acquisition_base_df) :
              LET row == acquisition_base_df[i]
              IN  ~IsNone(row.firm_size) =>
                     row.firm_size_category = expected(Val(row.firm_size))

\* a firm_size on each side of every threshold has been classified
C1_Witness ==
    /\ Applied("firm_size_category")
    /\ call.args[1] = 100
    /\ result = Some("Medium")

\* C2: the arr_category of a firm record is Minimal Value below 100, Low
\* Value from 100 and below 200, Medium Value from 200 and below 500 and High
\* Value from 500 on, both for the classification applied to any ARR and in
\* every acquisition base row that carries a firm record.
C2_ArrCategory ==
    LET expected(n) ==
            IF n < 100 THEN "Minimal Value"
            ELSE IF n < 200 THEN "Low Value"
            ELSE IF n < 500 THEN "Medium Value"
            ELSE "High Value"
    IN  /\ Applied("arr_category") => result = Some(expected(call.args[1]))
        /\ \A i \in 1..Len(acquisition_base_df) :
              LET row == acquisition_base_df[i]
              IN  ~IsNone(row.arr_in_thousands) =>
                     row.arr_category = expected(Val(row.arr_in_thousands))

C2_Witness ==
    /\ Applied("arr_category")
    /\ call.args[1] = 499
    /\ result = Some("Medium Value")

\* C3: the engagement level of (query_count, active_days) is the highest tier
\* whose two conditions both hold: Power User iff 50 queries and 15 days,
\* else Active User iff 20 and 8, else Regular User iff 5 and 3, else
\* Occasional User iff 1 query, else Inactive; (50,15) is Power User, (49,15)
\* is Active User and (0,0) is Inactive; every engagement row carries the
\* level of its own query_count and active_days.
C3_EngagementLevel ==
    LET power(q, d) == q >= 50 /\ d >= 15
        active(q, d) == q >= 20 /\ d >= 8
        regular(q, d) == q >= 5 /\ d >= 3
        occasional(q, d) == q >= 1
        tier(level, q, d) ==
            /\ (level = "Power User") = power(q, d)
            /\ (level = "Active User") = (~power(q, d) /\ active(q, d))
            /\ (level = "Regular User") =
                  (~power(q, d) /\ ~active(q, d) /\ regular(q, d))
            /\ (level = "Occasional User") =
                  (~power(q, d) /\ ~active(q, d) /\ ~regular(q, d) /\ occasional(q, d))
            /\ (level = "Inactive") =
                  (~power(q, d) /\ ~active(q, d) /\ ~regular(q, d) /\ ~occasional(q, d))
    IN  /\ Applied("engagement_level") =>
              /\ tier(Val(result), call.args[1], call.args[2])
              /\ call.args = <<50, 15>> => result = Some("Power User")
              /\ call.args = <<49, 15>> => result = Some("Active User")
              /\ call.args = <<0, 0>> => result = Some("Inactive")
        /\ \A i \in 1..Len(engagement_df) :
              LET row == engagement_df[i]
              IN  tier(row.engagement_level, row.query_count, row.active_days)

C3_Witness ==
    /\ Applied("engagement_level")
    /\ call.args = <<49, 15>>
    /\ result = Some("Active User")

-----------------------------------------------------------------------------
(* Week-over-week growth: C4 *)

\* the rows of the weekly rollup that belong to the series of row i and to an
\* earlier calendar week
EarlierWeeks(i) ==
    {j \in 1..Len(weekly_metrics) :
        /\ weekly_metrics[j].event_type = weekly_metrics[i].event_type
        /\ weekly_metrics[j].user_title = weekly_metrics[i].user_title
        /\ weekly_metrics[j].event_week < weekly_metrics[i].event_week}

\* the total_events of the latest of them
PreviousCount(i) ==
    weekly_metrics[CHOOSE j \in EarlierWeeks(i) :
                      \A k \in EarlierWeeks(i) :
                         weekly_metrics[k].event_week <= weekly_metrics[j].event_week
                  ].total_events

\* growth (in hundredths of a percent point) is exactly (curr - prev) * 100 / prev
ExactGrowth(growth, curr, prev) == Val(growth) * prev = (curr - prev) * 10000

\* growth is (curr - prev) * 100 / prev rounded to two decimals: within half
\* a hundredth of it
RoundedGrowth(growth, curr, prev) ==
    LET diff == Val(growth) * prev - (curr - prev) * 10000
    IN  -prev <= 2 * diff /\ 2 * diff <= prev

\* the statement of C4 about the weekly rows and about the computation
\* applied on its own; 'growth equals ...' is read exactly or as rounded
GrowthClaim(exact) ==
    LET Growth(growth, curr, prev) ==
            IF exact THEN ExactGrowth(growth, curr, prev)
            ELSE RoundedGrowth(growth, curr, prev)
    IN  /\ \A i \in 1..Len(weekly_metrics) :
              LET row == weekly_metrics[i]
              IN  IF EarlierWeeks(i) = {} \/ PreviousCount(i) = 0
                  THEN IsNone(row.week_over_week_growth_pct)
                  ELSE /\ ~IsNone(row.week_over_week_growth_pct)
                       /\ Growth(row.week_over_week_growth_pct, row.total_events,
                                 PreviousCount(i))
        /\ Applied("week_over_week_growth_pct") =>
              LET curr == call.args[1]
                  prev == call.args[2]
              IN  IF IsNone(prev) \/ prev = Some(0)
                  THEN IsNone(Val(result))
                  ELSE /\ ~IsNone(Val(result))
                       /\ Growth(Val(result), curr, Val(prev))

\* C4 as stated: for every weekly row of an (event_type, user_title) series,
\* week_over_week_growth_pct equals (current - previous) * 100 / previous and
\* is absent when the row has no previous row in its series or the previous
\* count is zero.
C4_GrowthExact == GrowthClaim(TRUE)

\* C4 as amended: week_over_week_growth_pct equals (current - previous) * 100
\* / previous rounded to two decimals, and is absent when the row has no
\* previous row in its series or the previous count is zero (so never
\* infinite); prev=10, curr=15 gives 50.0 and prev=0, curr=5 gives absent.
C4_GrowthRounded ==
    /\ GrowthClaim(FALSE)
    /\ (Applied("week_over_week_growth_pct") /\ call.args = <<15, Some(10)>>)
          => result = Some(Some(5000))
    /\ (Applied("week_over_week_growth_pct") /\ call.args = <<5, Some(0)>>)
          => result = Some(None)

\* a week of one event after a week of three of the same series: -66.67
C4_Witness ==
    \E i \in 1..Len(weekly_metrics) :
        /\ EarlierWeeks(i) # {}
        /\ PreviousCount(i) = 3
        /\ weekly_metrics[i].total_events = 1
        /\ weekly_metrics[i].week_over_week_growth_pct = Some(-6667)

-----------------------------------------------------------------------------
(* Empty and orphaned inputs: C5, C6 *)

\* C5: when the event collection is empty, simulate_event_performance_metrics
\* completes without raising; the daily, weekly and monthly rollups have zero
\* rows and the combined table is well formed with zero rows.
C5_EmptyEventsComplete ==
    (entry = "simulate_event_performance_metrics" /\ pc # "start" /\ events = <<>>)
        => /\ pc = "returned"
           /\ raised = ""
           /\ daily_metrics = <<>>
           /\ weekly_metrics = <<>>
           /\ monthly_metrics = <<>>
           /\ combined_metrics = <<>>

\* some event references a user or a firm that has no record
OrphanedReference ==
    \E i \in 1..Len(events) :
        ~HasUser(users, events[i].user_id) \/ ~HasFirm(firms, events[i].firm_id)

\* C6: with an event whose user_id has no matching user record or whose
\* firm_id has no matching firm record, the derivation of the engagement,
\* acquisition base and event performance tables does not raise.
C6_OrphansTolerated ==
    (/\ OrphanedReference
     /\ entry \in {"simulate_user_engagement", "simulate_user_acquisition_base",
                   "simulate_event_performance_metrics"}
     /\ pc # "start")
        => pc = "returned" /\ raised = ""

-----------------------------------------------------------------------------
(* The combined performance table: C7, C8 *)

\* C7: in the combined performance table documents_per_user and
\* events_per_user are present in every row tagged daily or monthly and hold
\* the not-applicable marker in every row tagged weekly.
C7_PerUserRatios ==
    \A i \in 1..Len(combined_metrics) :
        LET row == combined_metrics[i]
        IN  /\ row.time_grain \in {"daily", "monthly"} =>
                  ~IsNone(row.documents_per_user) /\ ~IsNone(row.events_per_user)
            /\ row.time_grain = "weekly" =>
                  IsNone(row.documents_per_user) /\ IsNone(row.events_per_user)

\* a combined table with rows of the three grains, one of them a daily row
\* with twelve documents per user
C7_Witness ==
    /\ \A grain \in {"daily", "weekly", "monthly"} :
          \E i \in 1..Len(combined_metrics) : combined_metrics[i].time_grain = grain
    /\ \E i \in 1..Len(combined_metrics) :
          /\ combined_metrics[i].time_grain = "daily"
          /\ combined_metrics[i].documents_per_user = Some(1200)

\* the superset of the columns of the three grains
UnionColumns == DailyColumns \cup WeeklyColumns \cup MonthlyColumns

\* row holds the not-applicable marker in the columns cols
NotApplicable(row, cols) ==
    \A c \in cols :
        IF c \in {"user_segment", "satisfaction_performance", "volume_performance"}
        THEN row[c] = NoneStr
        ELSE IsNone(row[c])

\* row carries the values of the rollup row src in the columns cols
Carries(row, src, cols) == \A c \in cols : row[c] = src[c]

\* C8: the combined table is the daily, then the weekly, then the monthly
\* rollup: its row count is the sum of the three, every row keeps the
\* time_grain, the time_period and the computed columns of its rollup row,
\* every row has the same superset of columns, and the columns a grain does
\* not compute hold the not-applicable marker.
C8_CombinedIsConcatenation ==
    LET d == Len(daily_metrics)
        w == Len(weekly_metrics)
        m == Len(monthly_metrics)
    IN  /\ Len(combined_metrics) = d + w + m
        /\ \A i \in 1..Len(combined_metrics) :
              DOMAIN combined_metrics[i] = UnionColumns
        /\ \A i \in 1..d :
              /\ combined_metrics[i].time_grain = "daily"
              /\ combined_metrics[i].time_period = daily_metrics[i].event_date
              /\ Carries(combined_metrics[i], daily_metrics[i], DailyColumns)
              /\ NotApplicable(combined_metrics[i],
                    {"week_over_week_growth_pct", "satisfaction_performance",
                     "volume_performance"})
        /\ \A i \in 1..w :
              /\ combined_metrics[d + i].time_grain = "weekly"
              /\ combined_metrics[d + i].time_period = weekly_metrics[i].event_week
              /\ Carries(combined_metrics[d + i], weekly_metrics[i], WeeklyColumns)
              /\ NotApplicable(combined_metrics[d + i],
                    {"user_segment", "documents_per_user", "events_per_user",
                     "satisfaction_performance", "volume_performance"})
        /\ \A i \in 1..m :
              /\ combined_metrics[d + w + i].time_grain = "monthly"
              /\ combined_metrics[d + w + i].time_period = monthly_metrics[i].event_month
              /\ Carries(combined_metrics[d + w + i], monthly_metrics[i], MonthlyColumns)
              /\ NotApplicable(combined_metrics[d + w + i],
                    {"week_over_week_growth_pct"})

\* three daily groups, two weekly groups and two monthly groups
C8_Witness ==
    /\ Len(daily_metrics) = 3
    /\ Len(weekly_metrics) = 2
    /\ Len(monthly_metrics) = 2
    /\ Len(combined_metrics) = 7

-----------------------------------------------------------------------------
(* The rollups as partitions of the events: C9 *)

\* the events all of whose grouping keys are present
Keyed(keys) ==
    {i \in 1..Len(event_performance_df) : HasKey(event_performance_df[i], keys)}

\* the groups of a rollup that hold the event i
GroupsOf(metrics, keys, i) ==
    {g \in 1..Len(metrics) :
        \A j \in 1..Len(keys) : metrics[g][keys[j]] = event_performance_df[i][keys[j]]}

\* the events of a rollup add up, and each is in exactly one group
Partitions(metrics, keys) ==
    /\ SumSeq(Column(metrics, "total_events")) = Cardinality(Keyed(keys))
    /\ \A i \in Keyed(keys) : Cardinality(GroupsOf(metrics, keys, i)) = 1
    /\ \A g \in 1..Len(metrics) :
          metrics[g].total_events =
              Cardinality({i \in Keyed(keys) : g \in GroupsOf(metrics, keys, i)})

\* C9: for each of the three grains, the sum of total_events over the groups
\* equals the number of input events whose grouping keys for that grain are
\* all present, and every such event is counted in exactly one group.
C9_GroupsPartitionEvents ==
    (pc \in {"returned", "performance", "done"} /\ event_performance_df # <<>>) =>
        /\ Len(event_performance_df) = Len(events)
        /\ Partitions(daily_metrics, DailyKeys)
        /\ Partitions(weekly_metrics, WeeklyKeys)
        /\ Partitions(monthly_metrics, MonthlyKeys)

\* a rollup that leaves out an event with a missing key and keeps another
C9_Witness ==
    /\ event_performance_df # <<>>
    /\ Keyed(WeeklyKeys) # {}
    /\ Cardinality(Keyed(WeeklyKeys)) < Len(events)
    /\ Len(weekly_metrics) = 1

-----------------------------------------------------------------------------
(* Users without events: C10 *)

HasEvents(user_id) == \E i \in 1..Len(events) : events[i].user_id = user_id

InTable(df, user_id) == \E i \in 1..Len(df) : df[i].user_id = user_id

AnomaliesReturned == entry = "analyze_anomalies" /\ pc = "returned"

\* C10: a user with zero events has no row in the engagement table, none in
\* the cohort table, contributes to no group of the performance table and is
\* in the orphaned_users returned by analyze_anomalies; every user with at
\* least one event is outside orphaned_users.
C10_UsersWithoutEvents ==
    \A u \in 1..Len(users) :
        LET id == users[u].user_id
        IN  IF HasEvents(id)
            THEN AnomaliesReturned => ~InTable(orphaned_users, id)
            ELSE /\ ~InTable(engagement_df, id)
                 /\ ~InTable(cohort_df, id)
                 /\ ~InTable(event_performance_df, id)
                 /\ AnomaliesReturned => InTable(orphaned_users, id)

\* analyze_anomalies has returned for a user with events and one without
C10_Witness ==
    /\ AnomaliesReturned
    /\ \E u \in 1..Len(users) : HasEvents(users[u].user_id)
    /\ \E u \in 1..Len(users) :
          ~HasEvents(users[u].user_id) /\ InTable(orphaned_users, users[u].user_id)

-----------------------------------------------------------------------------
(* Groups without a distinct user: C11 *)

\* some event names no user, and every other reference has its record
EventWithoutUser ==
    /\ \E i \in 1..Len(events) : events[i].user_id = NaNId
    /\ \A i \in 1..Len(events) :
          /\ events[i].user_id # NaNId => HasUser(users, events[i].user_id)
          /\ HasFirm(firms, events[i].firm_id)

\* C11: the per-user ratios are guarded against a zero distinct-user count:
\* with events that name no user, simulate_event_performance_metrics returns,
\* and every group with zero distinct users holds the not-applicable value in
\* documents_per_user and events_per_user, never a fault and never an
\* infinite value.
C11_ZeroUsersGuarded ==
    (entry = "simulate_event_performance_metrics" /\ pc # "start" /\ EventWithoutUser)
        => /\ pc = "returned"
           /\ raised = ""
           /\ \A i \in 1..Len(daily_metrics) :
                 daily_metrics[i].unique_users = 0 =>
                    /\ IsNone(daily_metrics[i].documents_per_user)
                    /\ IsNone(daily_metrics[i].events_per_user)
           /\ \A i \in 1..Len(monthly_metrics) :
                 monthly_metrics[i].unique_users = 0 =>
                    /\ IsNone(monthly_metrics[i].documents_per_user)
                    /\ IsNone(monthly_metrics[i].events_per_user)

-----------------------------------------------------------------------------
(* The categories of the acquisition base: C12, C13 *)

\* the feedback scores present in the events of a user
PresentScores(user_id) ==
    LET scores == Column(UserEvents(events, user_id), "feedback_score")
        present == SelectSeq(scores, LAMBDA o : ~IsNone(o))
    IN  [i \in 1..Len(present) |-> Val(present[i])]

\* C12: the satisfaction_category of a user is No Feedback exactly when the
\* user has no feedback score at all (no events, or events that all lack a
\* score); otherwise the mean of the present scores decides: below 3.5 Low
\* Satisfaction, from 3.5 and below 4.0 Fair Satisfaction, from 4.0 and below
\* 4.5 Good Satisfaction, from 4.5 on High Satisfaction.
C12_SatisfactionCategory ==
    \A i \in 1..Len(acquisition_base_df) :
        LET row == acquisition_base_df[i]
            scores == PresentScores(row.user_id)
            total == SumSeq(scores)
            n == Len(scores)
        IN  row.satisfaction_category =
                IF n = 0 THEN "No Feedback"
                ELSE IF 2 * total < 7 * n THEN "Low Satisfaction"
                ELSE IF total < 4 * n THEN "Fair Satisfaction"
                ELSE IF 2 * total < 9 * n THEN "Good Satisfaction"
                ELSE "High Satisfaction"

\* C13: activation_category is Not Activated exactly when the user has no
\* events; an activated user with a latency of d whole days is Immediate
\* Activation for d <= 1, Quick Activation for 1 < d <= 7, Standard Activation
\* for 7 < d <= 30 and Delayed Activation for d > 30, and a negative latency
\* (first event before the creation of the user) is Immediate Activation.
C13_ActivationCategory ==
    LET expected(d) ==
            IF d < 0 THEN "Immediate Activation"
            ELSE IF d <= 1 THEN "Immediate Activation"
            ELSE IF d <= 7 THEN "Quick Activation"
            ELSE IF d <= 30 THEN "Standard Activation"
            ELSE "Delayed Activation"
    IN  /\ Applied("activation_category") =>
              result = Some(IF call.args[1] = 0 THEN "Not Activated"
                            ELSE expected(Val(call.args[2])))
        /\ \A i \in 1..Len(acquisition_base_df) :
              LET row == acquisition_base_df[i]
                  user_events == UserEvents(events, row.user_id)
                  created == user_info(users, row.user_id).user_created_date
              IN  IF Len(user_events) = 0
                  THEN row.activation_category = "Not Activated"
                  ELSE \E k \in 1..Len(user_events) :
                          /\ \A j \in 1..Len(user_events) :
                                user_events[k].event_created_at
                                    <= user_events[j].event_created_at
                          /\ row.activation_category =
                                expected(DaysBetween(user_events[k].event_created_at,
                                                     created))

\* an acquisition base row of a user whose first event precedes the creation
\* of the user, next to a user without events
C13_Witness ==
    /\ \E i \in 1..Len(acquisition_base_df) :
          /\ ~IsNone(acquisition_base_df[i].days_to_first_activity)
          /\ Val(acquisition_base_df[i].days_to_first_activity) < 0
          /\ acquisition_base_df[i].activation_category = "Immediate Activation"
    /\ \E i \in 1..Len(acquisition_base_df) :
          acquisition_base_df[i].activation_category = "Not Activated"

-----------------------------------------------------------------------------
(* The user segment of an event: C14 *)

\* C14: the user_segment of every event is a total function of the whole-day
\* tenure, event time minus the creation time of the user: New User up to 7
\* days, Recent User above 7 and up to 30, Established User above 30 and up to
\* 90, Long-term User above 90; every negative tenure is New User.
C14_UserSegment ==
    LET expected(t) ==
            IF t < 0 THEN "New User"
            ELSE IF t <= 7 THEN "New User"
            ELSE IF t <= 30 THEN "Recent User"
            ELSE IF t <= 90 THEN "Established User"
            ELSE "Long-term User"
    IN  /\ Applied("user_segment") => result = Some(expected(call.args[1]))
        /\ \A i \in 1..Len(event_performance_df) :
              LET row == event_performance_df[i]
                  created == user_info(users, events[i].user_id).user_created_date
              IN  row.user_segment =
                      expected(DaysBetween(events[i].event_created_at, created))

\* an event performance row of an event before the creation of its user
C14_Witness ==
    \E i \in 1..Len(event_performance_df) :
        /\ event_performance_df[i].user_tenure_days < 0
        /\ event_performance_df[i].user_segment = "New User"

-----------------------------------------------------------------------------
(* The cohort table: C15 *)

\* simulate_cohort_analysis has returned its table
CohortReturned ==
    \/ entry = "simulate_cohort_analysis" /\ pc = "returned"
    \/ entry = "main" /\ pc \in {"cohort", "acquisition", "acquisition_base",
                                 "performance", "done"}

\* the number of events of a user in a calendar month
EventsInMonth(user_id, month) ==
    Cardinality({i \in 1..Len(events) :
                    /\ events[i].user_id = user_id
                    /\ MonthOf(events[i].event_created_at) = month})

\* C15: the cohort table holds, for every user with at least one event,
\* exactly six rows with months_since_signup 0..5 in that order, all with the
\* calendar month of the creation of the user as cohort_month; in row k
\* events_count is the number of events of the user in the month
\* cohort_month + k, is_retained is 1 iff events_count > 0, and active_days is
\* 0 iff events_count is 0. A user whose events all fall outside the window
\* has six rows with is_retained 0.
C15_CohortRows ==
    CohortReturned =>
        \A u \in 1..Len(users) :
            LET id == users[u].user_id
                rows == SelectSeq(cohort_df, LAMBDA r : r.user_id = id)
                cohort_month == MonthOf(users[u].user_created_date)
            IN  HasEvents(id) =>
                   /\ Len(rows) = 6
                   /\ \A k \in 1..6 :
                         /\ rows[k].months_since_signup = k - 1
                         /\ rows[k].cohort_month = cohort_month
                         /\ rows[k].events_count =
                                EventsInMonth(id, cohort_month + (k - 1))
                         /\ rows[k].is_retained =
                                (IF rows[k].events_count > 0 THEN 1 ELSE 0)
                         /\ (rows[k].active_days = 0) <=> (rows[k].events_count = 0)

\* a user whose events all precede the month of signup: six rows, none retained
C15_Witness ==
    /\ CohortReturned
    /\ \E u \in 1..Len(users) :
          /\ HasEvents(users[u].user_id)
          /\ Len(SelectSeq(cohort_df, LAMBDA r : r.user_id = users[u].user_id)) = 6
          /\ \A i \in 1..Len(cohort_df) :
                cohort_df[i].user_id = users[u].user_id =>
                   cohort_df[i].is_retained = 0

-----------------------------------------------------------------------------
(* The findings of analyze_consistency: C16, C17 *)

ConsistencyReturned == entry = "analyze_consistency" /\ pc = "returned"

\* a present score outside 1..5
OutOfRange(score) == ~IsNone(score) /\ (Val(score) < 1 \/ Val(score) > 5)

\* the number of rows of df whose feedback_score is missing, and is out of
\* range, exactly as the two flags say
CountScores(df, missing, out_of_range) ==
    Cardinality({i \in 1..Len(df) :
                    /\ missing <=> IsNone(df[i].feedback_score)
                    /\ out_of_range <=> OutOfRange(df[i].feedback_score)})

\* C16: analyze_consistency counts both kinds of feedback anomaly and drops
\* neither: every event with a missing feedback_score is in the missing
\* count, every event with a present score outside 1..5 is in the invalid
\* count, and no event with a present score inside 1..5 is in either.
C16_FeedbackCounted ==
    ConsistencyReturned =>
        /\ missing_feedback = Some(CountScores(events, TRUE, FALSE))
        /\ CountScores(invalid_feedback, FALSE, TRUE)
              = CountScores(events, FALSE, TRUE)
        /\ CountScores(invalid_feedback, FALSE, FALSE) = 0

\* a missing score, a score below 1 and a score inside 1..5 in one run
C16_Witness ==
    /\ ConsistencyReturned
    /\ missing_feedback = Some(1)
    /\ CountScores(events, FALSE, TRUE) = 1
    /\ CountScores(events, FALSE, FALSE) = 1
    /\ \E i \in 1..Len(invalid_feedback) : invalid_feedback[i].feedback_score = Some(0)

\* the columns of an event record
EventColumns ==
    {"user_id", "firm_id", "event_type", "event_created_at", "num_docs",
     "feedback_score"}

\* the event is strictly earlier than the creation of the user it references
BeforeItsUser(event) ==
    \E u \in 1..Len(users) :
        /\ users[u].user_id = event.user_id
        /\ event.event_created_at < users[u].user_created_date

\* C17: analyze_consistency reports as timeline issues exactly the events
\* whose event_created_at is strictly earlier than the creation date of the
\* user they reference; it assigns nothing on the events and users, and an
\* event whose user_id matches no user is not a timeline issue.
C17_TimelineIssues ==
    ConsistencyReturned =>
        /\ [i \in 1..Len(timeline_issues) |-> Select(timeline_issues[i], EventColumns)]
              = SelectSeq(events, BeforeItsUser)
        /\ \A i \in 1..Len(timeline_issues) :
              HasUser(users, timeline_issues[i].user_id)
        /\ assigned = {}

\* an event before the creation of its user, one at the very time of it and
\* one of a user without a record, of which the first alone is reported
C17_Witness ==
    /\ ConsistencyReturned
    /\ Len(timeline_issues) = 1
    /\ Len(events) = 3
    /\ \E i \in 1..Len(events) : ~HasUser(users, events[i].user_id)
    /\ \E i \in 1..Len(events) :
          \E u \in 1..Len(users) :
              /\ users[u].user_id = events[i].user_id
              /\ users[u].user_created_date = events[i].event_created_at

-----------------------------------------------------------------------------
(* The run of main: C18 *)

\* whether each of the five steps, in the order of main, has produced its
\* table (for the last step its base rows: the rollups of events that all
\* lack a grouping key are empty)
Produced ==
    <<engagement_df # <<>>, cohort_df # <<>>, acquisition_df # <<>>,
      acquisition_base_df # <<>>, event_performance_df # <<>>>>

\* the steps of main in their order, by the position main is in after each
StepPositions ==
    <<"engagement", "cohort", "acquisition", "acquisition_base", "performance">>

\* C18: in a run of main the five steps execute in the order engagement,
\* cohort, acquisition metrics, acquisition base, event performance; when a
\* step raises no later step runs and none of their outputs is produced, the
\* diagnostic naming the error is printed, the success banner is not, and
\* main returns 1; main returns 0 only after all five steps completed.
C18_MainOrder ==
    entry = "main" =>
        /\ loads \in 1..5
        /\ \A k \in 1..5 :
              pc = StepPositions[k] =>
                 /\ loads = k
                 /\ \A j \in 1..5 : Produced[j] <=> j <= k
                 /\ raised = "" /\ stdout = <<>> /\ ret = None
        /\ pc = "failed" =>
              /\ \A j \in 1..5 : Produced[j] <=> j < loads
              /\ raised # ""
              /\ stdout = <<(<<"error", raised>>)>>
              /\ ret = Some(1)
        /\ pc = "done" =>
              /\ loads = 5
              /\ \A j \in 1..5 : Produced[j]
              /\ raised = ""
              /\ stdout = <<(<<"completed", "">>)>>
        /\ ret = Some(0) <=> pc = "done"
        /\ pc \in Range(StepPositions) \cup {"failed", "done"}

\* a run that failed in its fourth step, after three tables and before the last
C18_Witness ==
    /\ entry = "main"
    /\ pc = "failed"
    /\ loads = 4
    /\ acquisition_df # <<>>
    /\ acquisition_base_df = <<>>
    /\ event_performance_df = <<>>
    /\ ret = Some(1)

-----------------------------------------------------------------------------
(* Two runs over the same inputs: C19 *)

\* C19: a run is deterministic in its inputs: two runs of the data quality
\* analysis over identical users, firms and events find the same future
\* dates, whatever the time at which each run happens.
C19_Deterministic ==
    ~IsNone(rerun) =>
        /\ Val(rerun).future_user_dates = future_user_dates
        /\ Val(rerun).future_firm_dates = future_firm_dates
        /\ Val(rerun).future_event_dates = future_event_dates

-----------------------------------------------------------------------------
(* The base collections within a run: C20 *)

\* C20: within one run the three base collections are loaded exactly once
\* and never modified afterwards: no step adds, removes or rewrites a column
\* or a row of the users, firms or events it works on.
C20_LoadedOnceUnmodified ==
    /\ loads <= 1
    /\ assigned = {}

-----------------------------------------------------------------------------
(* The firm recorded for a user: C21 *)

\* the rows of the events of a user, of one calendar month when one is given
RowsOf(user_id, month) ==
    {i \in 1..Len(events) :
        /\ events[i].user_id = user_id
        /\ IsNone(month) \/ MonthOf(events[i].event_created_at) = Val(month)}

\* the firm_id of the first of these rows in input row order
FirmOfFirstRow(rows) ==
    events[CHOOSE i \in rows : \A j \in rows : i <= j].firm_id

\* the firm_ids of the earliest of these rows in event_created_at order
FirmsOfEarliest(rows) ==
    {events[i].firm_id : i \in {i \in rows : \A j \in rows :
        events[i].event_created_at <= events[j].event_created_at}}

\* the firm_id of an acquisition row is that of the first row of the user
FirstRowFirm(df) ==
    \A r \in 1..Len(df) :
        LET rows == RowsOf(df[r].user_id, None)
        IN  df[r].firm_id =
                IF rows = {} THEN None ELSE Some(FirmOfFirstRow(rows))

\* C21: the firm_id recorded for a user is the firm_id of the first event in
\* input row order, not in event_created_at order, among the events of the
\* user in the month for an engagement row and among all events of the user
\* for an acquisition row, so that the same events in another row order can
\* give another firm_id.
C21_FirmOfFirstRow ==
    /\ \A r \in 1..Len(engagement_df) :
          engagement_df[r].firm_id =
              FirmOfFirstRow(RowsOf(engagement_df[r].user_id,
                                    Some(engagement_df[r].month)))
    /\ FirstRowFirm(acquisition_df)
    /\ FirstRowFirm(acquisition_base_df)

\* an acquisition base row whose firm_id is not that of the earliest event of
\* the user: the first row is a later event of another firm
C21_Witness ==
    \E r \in 1..Len(acquisition_base_df) :
        LET rows == RowsOf(acquisition_base_df[r].user_id, None)
        IN  /\ rows # {}
            /\ acquisition_base_df[r].firm_id = Some(2)
            /\ Val(acquisition_base_df[r].firm_id) \notin FirmsOfEarliest(rows)

-----------------------------------------------------------------------------
(* Future dates as findings: C22 *)

\* analyze_business_logic has returned its sets, on its own or for the report
FutureDatesFound ==
    /\ pc = "returned"
    /\ entry \in {"analyze_business_logic", "generate_summary_report"}

SummaryReturned == entry = "generate_summary_report" /\ pc = "returned"

\* the rows of df whose timestamp in column col is later than the clock read
LaterThanNow(df, col) ==
    {df[i] : i \in {i \in 1..Len(df) : df[i][col] > Val(current_date)}}

\* every user, firm and event dated after the current date is in the set
\* returned for its kind, and nothing else is
FutureDatesReturned ==
    FutureDatesFound =>
        /\ Range(future_user_dates) = LaterThanNow(users, "user_created_date")
        /\ Range(future_firm_dates) = LaterThanNow(firms, "firm_created_date")
        /\ Range(future_event_dates) = LaterThanNow(events, "event_created_at")

\* C22: every user, firm and event whose timestamp is later than the current
\* date is in the corresponding set returned by analyze_business_logic, and
\* each of the three sets adds its size to the business-logic issue total of
\* generate_summary_report, next to the firms without ARR and without size.
C22_FutureDatesCounted ==
    /\ FutureDatesReturned
    /\ SummaryReturned =>
          Val(report).business_logic_issues =
              Len(zero_arr_firms) + Len(zero_size_firms)
              + Len(future_user_dates) + Len(future_firm_dates)
              + Len(future_event_dates)

-----------------------------------------------------------------------------
(* One acquisition row per user: C23 *)

\* df has exactly one row for every user of users_df and no other row
OneRowPerUser(df) ==
    /\ \A i \in 1..Len(users) :
          Cardinality({j \in 1..Len(df) : df[j].user_id = users[i].user_id}) = 1
    /\ \A j \in 1..Len(df) : HasUser(users, df[j].user_id)

\* the times of the events of a user
EventTimes(user_id) ==
    {events[i].event_created_at :
        i \in {i \in 1..Len(events) : events[i].user_id = user_id}}

\* days is the number of whole days from the creation of the user to the
\* earliest event of the user: the difference lies in [days, days + 1) days
WholeDaysToEarliest(row, days) ==
    \E first \in EventTimes(row.user_id) :
        /\ \A t \in EventTimes(row.user_id) : first <= t
        /\ \E i \in 1..Len(users) :
              /\ users[i].user_id = row.user_id
              /\ days * TicksPerDay <= first - users[i].user_created_date
              /\ first - users[i].user_created_date < (days + 1) * TicksPerDay

\* what the two tables share: a user without events has no latency and no
\* firm, flags and counts of zero; a user with events has the latency in
\* whole days
LatencyOfRow(row) ==
    IF HasEvents(row.user_id)
    THEN /\ ~IsNone(row.days_to_first_activity)
         /\ WholeDaysToEarliest(row, Val(row.days_to_first_activity))
    ELSE /\ IsNone(row.days_to_first_activity)
         /\ IsNone(row.firm_id)
         /\ row.is_activated = 0
         /\ row.is_quick_start = 0
         /\ row.total_events = 0

\* C23: both acquisition tables have exactly one row per user, users without
\* events included; the row of a user without events has no
\* days_to_first_activity, first_activity_date or firm_id, the flags
\* is_activated, is_quick_start and is_monthly_activated at 0, and
\* total_events and active_days at 0; the row of a user with events has
\* days_to_first_activity equal to the whole-day difference between the
\* earliest event time and the creation of the user.
C23_OneRowPerUser ==
    /\ acquisition_df # <<>> =>
          /\ OneRowPerUser(acquisition_df)
          /\ \A j \in 1..Len(acquisition_df) : LatencyOfRow(acquisition_df[j])
    /\ acquisition_base_df # <<>> =>
          /\ OneRowPerUser(acquisition_base_df)
          /\ \A j \in 1..Len(acquisition_base_df) :
                LET row == acquisition_base_df[j]
                IN  /\ LatencyOfRow(row)
                    /\ ~HasEvents(row.user_id) =>
                          /\ IsNone(row.first_activity_date)
                          /\ row.is_monthly_activated = 0
                          /\ row.active_days = 0

\* both tables made in one run for two users, one without events and one
\* whose first event comes two days and a half after the creation of the user
C23_Witness ==
    /\ Len(acquisition_df) = 2
    /\ Len(acquisition_base_df) = 2
    /\ \E i, j \in 1..2 :
          /\ acquisition_df[i].total_events = 0
          /\ acquisition_base_df[i].total_events = 0
          /\ acquisition_df[j].days_to_first_activity = Some(2)
          /\ acquisition_base_df[j].days_to_first_activity = Some(2)
          /\ acquisition_base_df[j].first_activity_date = Some(Day(2) + 1)

-----------------------------------------------------------------------------
(* High-satisfaction and high-volume events of a group: C24 *)

\* the events of group g of a rollup, as positions in events_df
Members(metrics, keys, g) ==
    {i \in Keyed(keys) : g \in GroupsOf(metrics, keys, i)}

HighSatisfaction(i) ==
    ~IsNone(events[i].feedback_score) /\ Val(events[i].feedback_score) >= 4

HighVolume(i) == events[i].num_docs >= 10

\* rate, in hundredths of a percent, is n / d * 100: exactly, or to the
\* nearest hundredth
IsRate(rate, n, d, exact) ==
    IF exact THEN rate * d = n * 10000
    ELSE /\ 2 * (rate * d - n * 10000) <= d
         /\ 2 * (n * 10000 - rate * d) <= d

\* the counts and the rates of every group of one rollup
GroupRates(metrics, keys, exact) ==
    \A g \in 1..Len(metrics) :
        LET members == Members(metrics, keys, g)
            high_satisfaction == Cardinality({i \in members : HighSatisfaction(i)})
            high_volume == Cardinality({i \in members : HighVolume(i)})
        IN  /\ metrics[g].total_events = Cardinality(members)
            /\ metrics[g].high_satisfaction_events = high_satisfaction
            /\ metrics[g].high_volume_events = high_volume
            /\ IsRate(metrics[g].satisfaction_rate_pct, high_satisfaction,
                      Cardinality(members), exact)
            /\ IsRate(metrics[g].high_volume_rate_pct, high_volume,
                      Cardinality(members), exact)

RatesClaim(exact) ==
    (pc \in {"returned", "performance", "done"} /\ event_performance_df # <<>>) =>
        /\ GroupRates(daily_metrics, DailyKeys, exact)
        /\ GroupRates(weekly_metrics, WeeklyKeys, exact)
        /\ GroupRates(monthly_metrics, MonthlyKeys, exact)

\* C24 as stated: in every group of every grain high_satisfaction_events is
\* the number of its events with feedback_score >= 4 and high_volume_events
\* the number with num_docs >= 10, an event without a score is no
\* high-satisfaction event but counts in total_events, and
\* satisfaction_rate_pct equals high_satisfaction_events / total_events * 100.
C24_RatesExact == RatesClaim(TRUE)

\* C24 as the code has it: the same counts, and satisfaction_rate_pct is
\* high_satisfaction_events / total_events * 100 rounded to two decimals,
\* over all events of the group, those without a score included.
C24_RatesRounded == RatesClaim(FALSE)

\* a monthly group of three events, one of them with a score of 4 or more
\* and one without a score: a rate of 33.33 percent
C24_Witness ==
    \E g \in 1..Len(monthly_metrics) :
        /\ monthly_metrics[g].total_events = 3
        /\ monthly_metrics[g].high_satisfaction_events = 1
        /\ monthly_metrics[g].satisfaction_rate_pct = 3333
        /\ \E i \in Members(monthly_metrics, MonthlyKeys, g) :
              IsNone(events[i].feedback_score)

-----------------------------------------------------------------------------
(* The previous week of a series: C25 *)

\* the events of the series of a weekly row, as positions in events_df
SeriesEventsOf(row) ==
    {i \in 1..Len(event_performance_df) :
        /\ event_performance_df[i].event_type = row.event_type
        /\ event_performance_df[i].user_title = row.user_title}

\* the calendar weeks before that of the row in which its series has events
WeeksBefore(row) ==
    {event_performance_df[i].event_week :
        i \in {i \in SeriesEventsOf(row) :
                  event_performance_df[i].event_week < row.event_week}}

\* the number of events of the series in the latest of those weeks
CountOfNearestWeek(row) ==
    LET nearest == CHOOSE w \in WeeksBefore(row) : \A v \in WeeksBefore(row) : v <= w
    IN  Cardinality({i \in SeriesEventsOf(row) :
                        event_performance_df[i].event_week = nearest})

\* C25: the previous count of a weekly row is the total_events of the nearest
\* earlier week in which its (event_type, user_title) series has events,
\* however many calendar weeks lie in between; growth is absent only in the
\* earliest week of a series, and the rows of another series never give the
\* previous count.
C25_PreviousWeekOfSeries ==
    (pc \in {"returned", "performance", "done"} /\ event_performance_df # <<>>) =>
        \A r \in 1..Len(weekly_metrics) :
            LET row == weekly_metrics[r]
            IN  IF WeeksBefore(row) = {}
                THEN /\ IsNone(row.prev_week_events)
                     /\ IsNone(row.week_over_week_growth_pct)
                ELSE /\ row.prev_week_events = Some(CountOfNearestWeek(row))
                     /\ ~IsNone(row.week_over_week_growth_pct)

\* a row of week 3 that takes its previous count of two events from week 0
\* of its series, while the row of week 1, of the other series, has one event
C25_Witness ==
    \E r, q \in 1..Len(weekly_metrics) :
        /\ weekly_metrics[r].event_week = 3
        /\ weekly_metrics[r].prev_week_events = Some(2)
        /\ weekly_metrics[q].event_week = 1
        /\ weekly_metrics[q].user_title # weekly_metrics[r].user_title
        /\ weekly_metrics[q].total_events = 1
        /\ q < r

-----------------------------------------------------------------------------
(* Unknown firm categories: C26 *)

\* the two categories of the row are those of a record of the firm it names
CategoriesOfFirm(row) ==
    \E f \in 1..Len(firms) :
        /\ firms[f].firm_id = Val(row.firm_id)
        /\ row.firm_size_category = firm_size_category(firms[f].firm_size)
        /\ row.arr_category = arr_category(firms[f].arr_in_thousands)

\* C26: in the acquisition base table firm_size_category and arr_category are
\* both Unknown exactly when the user has no events; a user with at least one
\* event, whatever the firm_id of that event (0 included), has the two
\* categories computed from the record of the firm and never Unknown.
C26_UnknownOnlyWithoutEvents ==
    \A j \in 1..Len(acquisition_base_df) :
        LET row == acquisition_base_df[j]
        IN  IF HasEvents(row.user_id)
            THEN /\ ~IsNone(row.firm_id)
                 /\ CategoriesOfFirm(row)
                 /\ row.firm_size_category # "Unknown"
                 /\ row.arr_category # "Unknown"
            ELSE /\ row.firm_size_category = "Unknown"
                 /\ row.arr_category = "Unknown"

-----------------------------------------------------------------------------
(* The issue total and the quality score: C27 *)

\* an event whose missing feedback_score is counted as a missing cell and
\* once more as an invalid score
MissingCountedTwice ==
    \E i \in 1..Len(events) :
        /\ IsNone(events[i].feedback_score)
        /\ events_missing["feedback_score"] > 0
        /\ events[i] \in Range(invalid_feedback)

\* C27: the total issue count of generate_summary_report never exceeds the
\* total record count, so the quality score (total_records - total_issues) /
\* total_records * 100 lies between 0 and 100, and no record or cell is
\* counted as an issue more than once across the four kinds of findings.
C27_IssuesWithinRecords ==
    SummaryReturned =>
        /\ Val(report).total_issues <= Val(report).total_records
        /\ Val(report).overall_quality_score.numerator >= 0
        /\ Val(report).overall_quality_score.numerator
              <= 100 * Val(report).overall_quality_score.denominator
        /\ ~MissingCountedTwice

-----------------------------------------------------------------------------
(* The counts of a group within its number of events: C28 *)

\* the counts of every group lie within its total_events, and its rates
\* (in hundredths of a percent) within 0 and 100 percent
CountsWithinEvents(metrics) ==
    \A g \in 1..Len(metrics) :
        LET row == metrics[g]
        IN  /\ 1 <= row.unique_users /\ row.unique_users <= row.total_events
            /\ 1 <= row.unique_firms /\ row.unique_firms <= row.total_events
            /\ 0 <= row.high_satisfaction_events
            /\ row.high_satisfaction_events <= row.total_events
            /\ 0 <= row.high_volume_events
            /\ row.high_volume_events <= row.total_events
            /\ 0 <= row.satisfaction_rate_pct /\ row.satisfaction_rate_pct <= 10000
            /\ 0 <= row.high_volume_rate_pct /\ row.high_volume_rate_pct <= 10000

\* the per-user ratios (in hundredths) of every group are numbers, and there
\* is at least one event per user
RatiosDefined(metrics) ==
    \A g \in 1..Len(metrics) :
        /\ metrics[g].unique_users >= 1
        /\ ~IsNone(metrics[g].events_per_user)
        /\ Val(metrics[g].events_per_user) >= 100
        /\ ~IsNone(metrics[g].documents_per_user)
        /\ Val(metrics[g].documents_per_user) * metrics[g].unique_users
              >= 100 * metrics[g].total_documents_processed - metrics[g].unique_users
        /\ Val(metrics[g].documents_per_user) * metrics[g].unique_users
              <= 100 * metrics[g].total_documents_processed + metrics[g].unique_users

\* C28: every group of the daily, weekly or monthly rollup has 1 <=
\* unique_users <= total_events, 1 <= unique_firms <= total_events, 0 <=
\* high_satisfaction_events <= total_events and 0 <= high_volume_events <=
\* total_events; so the two rates lie in [0,100], events_per_user >= 1, and
\* the per-user ratios never divide by zero.
C28_CountsWithinEvents ==
    /\ CountsWithinEvents(daily_metrics)
    /\ CountsWithinEvents(weekly_metrics)
    /\ CountsWithinEvents(monthly_metrics)
    /\ RatiosDefined(daily_metrics)
    /\ RatiosDefined(monthly_metrics)

\* a monthly group of three events of one user at two firms, one of them of
\* high satisfaction and none of high volume
C28_Witness ==
    \E g \in 1..Len(monthly_metrics) :
        /\ monthly_metrics[g].total_events = 3
        /\ monthly_metrics[g].unique_users = 1
        /\ monthly_metrics[g].unique_firms = 2
        /\ monthly_metrics[g].high_satisfaction_events = 1
        /\ monthly_metrics[g].high_volume_events = 0
        /\ monthly_metrics[g].events_per_user = Some(300)

-----------------------------------------------------------------------------
(* The engagement table as a partition of the events: C29 *)

\* the events of a user in a calendar month, as positions in events_df
EventsOfPair(user_id, month) ==
    {i \in 1..Len(events) :
        /\ events[i].user_id = user_id
        /\ MonthOf(events[i].event_created_at) = month}

\* the rows of the engagement table for a user and a month
RowsOfPair(user_id, month) ==
    {r \in 1..Len(engagement_df) :
        /\ engagement_df[r].user_id = user_id
        /\ engagement_df[r].month = month}

\* C29: the engagement table partitions the events by (user_id, calendar
\* month): each pair with at least one event has exactly one row, no other
\* pair has a row, the query_count values add up to the number of events,
\* and every row has query_count >= 1 and 1 <= active_days <= query_count,
\* so its engagement_level is never Inactive.
C29_EngagementPartition ==
    engagement_df # <<>> =>
        /\ \A i \in 1..Len(events) :
              Cardinality(RowsOfPair(events[i].user_id,
                                     MonthOf(events[i].event_created_at))) = 1
        /\ \A r \in 1..Len(engagement_df) :
              LET row == engagement_df[r]
              IN  /\ EventsOfPair(row.user_id, row.month) # {}
                  /\ row.query_count =
                        Cardinality(EventsOfPair(row.user_id, row.month))
                  /\ row.query_count >= 1
                  /\ 1 <= row.active_days
                  /\ row.active_days <= row.query_count
                  /\ row.engagement_level # "Inactive"
        /\ SumSeq(Column(engagement_df, "query_count")) = Len(events)

\* two rows for one user: three events on two days of January, and one event
\* in February
C29_Witness ==
    /\ Len(engagement_df) = 2
    /\ Len(events) = 4
    /\ \E r, q \in 1..2 :
          /\ engagement_df[r].month = 0
          /\ engagement_df[r].query_count = 3
          /\ engagement_df[r].active_days = 2
          /\ engagement_df[q].month = 1
          /\ engagement_df[q].query_count = 1

-----------------------------------------------------------------------------
(* The activation flags and the activation category: C30 *)

\* C30: in every acquisition base row is_quick_start = 1 implies
\* is_monthly_activated = 1, which implies is_activated = 1; and
\* activation_category is Not Activated iff is_activated = 0, Immediate or
\* Quick Activation iff is_quick_start = 1, Standard Activation iff
\* is_monthly_activated = 1 and is_quick_start = 0, and Delayed Activation
\* iff is_activated = 1 and is_monthly_activated = 0.
C30_FlagsAgreeWithCategory ==
    \A j \in 1..Len(acquisition_base_df) :
        LET row == acquisition_base_df[j]
        IN  /\ row.is_quick_start = 1 => row.is_monthly_activated = 1
            /\ row.is_monthly_activated = 1 => row.is_activated = 1
            /\ row.activation_category = "Not Activated" <=> row.is_activated = 0
            /\ row.activation_category \in
                  {"Immediate Activation", "Quick Activation"}
                  <=> row.is_quick_start = 1
            /\ row.activation_category = "Standard Activation"
                  <=> (row.is_monthly_activated = 1 /\ row.is_quick_start = 0)
            /\ row.activation_category = "Delayed Activation"
                  <=> (row.is_activated = 1 /\ row.is_monthly_activated = 0)

\* a table with a user activated within a day and a user activated after
\* more than a week
C30_Witness ==
    \E i, j \in 1..Len(acquisition_base_df) :
        /\ acquisition_base_df[i].activation_category = "Immediate Activation"
        /\ acquisition_base_df[i].is_quick_start = 1
        /\ acquisition_base_df[j].activation_category = "Standard Activation"
        /\ acquisition_base_df[j].is_quick_start = 0
        /\ acquisition_base_df[j].is_monthly_activated = 1

=============================================================================
